---- MODULE Spec2Model ----
(***************************************************************************)
(* The analytics pipeline of customs-insight: period-label parsing,        *)
(* date-keyed aggregation, MoM/YoY growth, the quarterly roll-up, the year *)
(* filters and the business-calendar enricher.                             *)
(*                                                                         *)
(* Conventions                                                             *)
(*  - A Python str is a sequence of one-character strings.  The Korean     *)
(*    year marker (U+B144) is written "Y" and the month marker (U+C6D4)    *)
(*    is written "M"; "x" stands for any other non-blank character.        *)
(*  - A float cell is a record [k, v]: Num(v), NaN, PosInf, NegInf.  An    *)
(*    Optional[float] is Num(v) or None.  Percentages carry two decimals   *)
(*    and are kept in hundredths of a percent (50.0 % is Num(5000)).       *)
(*    The enricher rounds its percentages to whole numbers and they are   *)
(*    kept as such (50 % is Num(50)).                                      *)
(*  - A DataFrame is [columns, rows]; every row carries its index label    *)
(*    in the field idx.                                                    *)
(***************************************************************************)
EXTENDS Integers, Sequences, FiniteSets, TLC

VARIABLES
    pc,              \* position in the running call
    df,              \* raw input table of parse_and_aggregate_dataframe
    i,               \* number of rows of df the parse loop has consumed
    current_year,    \* pipeline.py: the loop's year context
    processed_data,  \* pipeline.py: the pairs emitted so far
    parsed_df,       \* table flowing through pipe(aggregate_by_date, sort_by_date)
    records,         \* List[TradeRecord] given to calculate_mom_and_yoy
    results,         \* List[AnalysisResult]: with_mom, then with_yoy
    monthly_df,      \* monthly analytics table
    quarterly_df,    \* quarterly analytics table
    current,         \* calculate_percentage_change: argument
    previous,        \* calculate_percentage_change: argument
    change,          \* calculate_percentage_change: returned value
    start_year,      \* filter_by_year / filter_quarterly_by_year: argument
    end_year,        \* filter_by_year / filter_quarterly_by_year: argument
    monthly_df_filtered,    \* table returned by filter_by_year
    quarterly_df_filtered,  \* table returned by filter_quarterly_by_year
    kr_holidays,     \* dashboard_generator.py: the holiday calendar in use
    enriched,        \* dashboard_generator.py: table flowing through enrich_data
    all_raw_dfs      \* cli.py: the raw tables _merge_downloaded_files has read

filterVars == <<start_year, end_year, monthly_df_filtered, quarterly_df_filtered>>
enrichVars == <<kr_holidays, enriched>>
mergeVars == <<all_raw_dfs>>

vars == <<pc, df, i, current_year, processed_data, parsed_df, records, results,
          monthly_df, quarterly_df, current, previous, change, filterVars,
          enrichVars, mergeVars>>

----------------------------------------------------------------------------
(* Bounds of the model *)

\* longest raw table given to the pipeline
MaxRows == 4
\* longest record list given directly to the growth / quarterly functions
MaxRecords == 3
\* largest magnitude of an argument of calculate_percentage_change
MaxValue == 33
\* longest monthly table given directly to enrich_data
MaxMonths == 3
\* longest raw table given to the dashboard workflow
MaxDashboardRows == 3
\* longest raw table given to the merge of downloaded files
MaxMergeRows == 2

----------------------------------------------------------------------------
(* Values *)

Num(v) == [k |-> "num", v |-> v]
NaN == [k |-> "nan", v |-> 0]
PosInf == [k |-> "inf", v |-> 1]
NegInf == [k |-> "inf", v |-> -1]
None == [k |-> "none", v |-> 0]
\* a cell holding text that float() rejects, e.g. "-"
BadStr == [k |-> "str", v |-> 0]

NoStr == <<>>

Digits == {"0", "1", "2", "3", "4", "5", "6", "7", "8", "9"}

DigitVal(c) ==
    CASE c = "0" -> 0 [] c = "1" -> 1 [] c = "2" -> 2 [] c = "3" -> 3
      [] c = "4" -> 4 [] c = "5" -> 5 [] c = "6" -> 6 [] c = "7" -> 7
      [] c = "8" -> 8 [] c = "9" -> 9

DigitChar(d) ==
    CASE d = 0 -> "0" [] d = 1 -> "1" [] d = 2 -> "2" [] d = 3 -> "3"
      [] d = 4 -> "4" [] d = 5 -> "5" [] d = 6 -> "6" [] d = 7 -> "7"
      [] d = 8 -> "8" [] d = 9 -> "9"

\* code point order of the characters that occur in dates and quarter labels
CharCode(c) ==
    CASE c = " " -> 32 [] c = "-" -> 45 [] c \in Digits -> 48 + DigitVal(c)
      [] c = "M" -> 77 [] c = "Q" -> 81 [] c = "Y" -> 89 [] OTHER -> 120

\* Python's s < t on str
RECURSIVE StrLess(_, _)
StrLess(s, t) ==
    IF t = <<>> THEN FALSE
    ELSE IF s = <<>> THEN TRUE
    ELSE IF CharCode(Head(s)) # CharCode(Head(t))
         THEN CharCode(Head(s)) < CharCode(Head(t))
    ELSE StrLess(Tail(s), Tail(t))

\* int(s) for a string of decimal digits
RECURSIVE StrToInt(_)
StrToInt(s) ==
    IF s = <<>> THEN 0
    ELSE 10 * StrToInt(SubSeq(s, 1, Len(s) - 1)) + DigitVal(s[Len(s)])

\* str(n) for n >= 0
RECURSIVE IntToStr(_)
IntToStr(n) ==
    IF n < 10 THEN <<DigitChar(n)>>
    ELSE Append(IntToStr(n \div 10), DigitChar(n % 10))

\* str.strip()
RECURSIVE LStrip(_)
LStrip(s) == IF s # <<>> /\ Head(s) = " " THEN LStrip(Tail(s)) ELSE s

RECURSIVE RStrip(_)
RStrip(s) ==
    IF s # <<>> /\ s[Len(s)] = " " THEN RStrip(SubSeq(s, 1, Len(s) - 1)) ELSE s

Strip(s) == LStrip(RStrip(s))

\* str.zfill(width)
RECURSIVE ZFill(_, _)
ZFill(s, width) == IF Len(s) >= width THEN s ELSE ZFill(<<"0">> \o s, width)

----------------------------------------------------------------------------
(* date_parsing.py *)

\* re.match(r'(\d{4})Y', period_str.strip()): anchored at the start only
parse_year(period_str) ==
    LET s == Strip(period_str) IN
    IF /\ Len(s) >= 5
       /\ \A n \in 1..4 : s[n] \in Digits
       /\ s[5] = "Y"
    THEN SubSeq(s, 1, 4)
    ELSE NoStr

\* a month pattern that insists on two digits
parse_month_two_digits(period_str) ==
    LET s == Strip(period_str) IN
    IF Len(s) >= 3 /\ s[1] \in Digits /\ s[2] \in Digits /\ s[3] = "M"
    THEN SubSeq(s, 1, 2)
    ELSE NoStr

\* re.match(r'(\d{1,2})M', period_str.strip()), then zfill(2)
parse_month(period_str) ==
    LET s == Strip(period_str) IN
    IF Len(s) >= 3 /\ s[1] \in Digits /\ s[2] \in Digits /\ s[3] = "M"
    THEN ZFill(SubSeq(s, 1, 2), 2)
    ELSE IF Len(s) >= 2 /\ s[1] \in Digits /\ s[2] = "M"
    THEN ZFill(SubSeq(s, 1, 1), 2)
    ELSE NoStr

\* a year row that keeps an already set context
parse_period_row_keep_first(period_str, cur_year) ==
    LET s == Strip(period_str)
        year == parse_year(s)
        month == parse_month(s)
    IN  IF year # NoStr THEN <<IF cur_year # NoStr THEN cur_year ELSE year, NoStr>>
        ELSE IF month # NoStr /\ cur_year # NoStr THEN <<cur_year, month>>
        ELSE <<NoStr, NoStr>>

\* returns <<year, month>>; NoStr is None (and, like None, falsy)
parse_period_row(period_str, cur_year) ==
    LET s == Strip(period_str)
        year == parse_year(s)
        month == parse_month(s)
    IN  IF year # NoStr THEN <<year, NoStr>>
        ELSE IF month # NoStr /\ cur_year # NoStr THEN <<cur_year, month>>
        ELSE <<NoStr, NoStr>>

format_date(year, month) == year \o <<"-">> \o ZFill(month, 2)

----------------------------------------------------------------------------
(* Tables *)

DateColumns == <<"date", "export_amount">>
MonthlyColumns == <<"date", "export_amount", "export_mom", "export_yoy">>
QuarterlyColumns == <<"quarter", "export_amount", "export_qoq", "export_yoy">>

\* an empty table that has lost its columns
EmptyFrame_no_columns(cols) == [columns |-> <<>>, rows |-> <<>>]

\* pd.DataFrame(columns=...)
EmptyFrame(cols) == [columns |-> cols, rows |-> <<>>]

\* DataFrame.empty
IsEmpty(frame) == frame.rows = <<>>

\* reset_index(drop=True): index labels become 0..n-1 in row order
ResetIndex(rows) == [n \in 1..Len(rows) |-> [rows[n] EXCEPT !.idx = n - 1]]

Range(s) == {s[n] : n \in 1..Len(s)}

\* the least string of a non-empty set
MinStr(S) == CHOOSE a \in S : \A b \in S : ~StrLess(b, a)

\* the strings of a set in ascending order
RECURSIVE SortedStrings(_)
SortedStrings(S) ==
    IF S = {} THEN <<>> ELSE <<MinStr(S)>> \o SortedStrings(S \ {MinStr(S)})

\* Series.sum() of float cells: NaN is skipped (skipna), an empty sum is 0
RECURSIVE SumSkipNa(_)
SumSkipNa(cells) ==
    IF cells = <<>> THEN 0
    ELSE (IF Head(cells).k = "num" THEN Head(cells).v ELSE 0) + SumSkipNa(Tail(cells))

\* the cells of a column in the rows having key under field
AmountsWhere(rows, field, key) ==
    LET keep == SelectSeq(rows, LAMBDA r : r[field] = key)
    IN  [n \in 1..Len(keep) |-> keep[n].export_amount]

----------------------------------------------------------------------------
(* transformations.py *)

\* a group sum that counts the group's first cell twice
aggregate_by_date_first_twice(frame) ==
    IF IsEmpty(frame) THEN frame
    ELSE LET keys == SortedStrings({r.date : r \in Range(frame.rows)})
             cells(key) == AmountsWhere(frame.rows, "date", key)
         IN  [columns |-> DateColumns,
              rows |-> [n \in 1..Len(keys) |->
                          [idx |-> n - 1, date |-> keys[n],
                           export_amount |->
                               Num(SumSkipNa(<<cells(keys[n])[1]>> \o cells(keys[n])))]]]

\* a group that keeps its last cell instead of the sum
aggregate_by_date_last(frame) ==
    IF IsEmpty(frame) THEN frame
    ELSE LET keys == SortedStrings({r.date : r \in Range(frame.rows)})
             cells(key) == AmountsWhere(frame.rows, "date", key)
         IN  [columns |-> DateColumns,
              rows |-> [n \in 1..Len(keys) |->
                          [idx |-> n - 1, date |-> keys[n],
                           export_amount |->
                               Num(SumSkipNa(<<cells(keys[n])[Len(cells(keys[n]))]>>))]]]

\* every row kept as a group of its own
aggregate_by_date_ungrouped(frame) ==
    IF IsEmpty(frame) THEN frame
    ELSE [columns |-> DateColumns,
          rows |-> [n \in 1..Len(frame.rows) |->
                      [idx |-> n - 1, date |-> frame.rows[n].date,
                       export_amount |->
                           Num(SumSkipNa(<<frame.rows[n].export_amount>>))]]]

\* df.groupby('date', as_index=False)['export_amount'].sum(): one row per
\* distinct date, keys ascending (sort=True), a fresh 0..n-1 index
aggregate_by_date(frame) ==
    IF IsEmpty(frame) THEN frame
    ELSE LET keys == SortedStrings({r.date : r \in Range(frame.rows)})
         IN  [columns |-> DateColumns,
              rows |-> [n \in 1..Len(keys) |->
                          [idx |-> n - 1, date |-> keys[n],
                           export_amount |->
                               Num(SumSkipNa(AmountsWhere(frame.rows, "date", keys[n])))]]]

\* r placed after the rows of s whose date is not greater
RECURSIVE InsertByDate(_, _)
InsertByDate(s, r) ==
    IF s = <<>> THEN <<r>>
    ELSE IF StrLess(r.date, Head(s).date) THEN <<r>> \o s
    ELSE <<Head(s)>> \o InsertByDate(Tail(s), r)

\* sort_values('date'): rows keep their index labels.  The order of rows with
\* equal dates is the sort algorithm's; the pipeline sorts unique dates only.
RECURSIVE SortValuesByDate(_)
SortValuesByDate(rows) ==
    IF rows = <<>> THEN <<>>
    ELSE InsertByDate(SortValuesByDate(SubSeq(rows, 1, Len(rows) - 1)), rows[Len(rows)])

\* r placed after the rows of s whose date is not smaller
RECURSIVE InsertByDateDesc(_, _)
InsertByDateDesc(s, r) ==
    IF s = <<>> THEN <<r>>
    ELSE IF StrLess(Head(s).date, r.date) THEN <<r>> \o s
    ELSE <<Head(s)>> \o InsertByDateDesc(Tail(s), r)

RECURSIVE SortValuesByDateDesc(_)
SortValuesByDateDesc(rows) ==
    IF rows = <<>> THEN <<>>
    ELSE InsertByDateDesc(SortValuesByDateDesc(SubSeq(rows, 1, Len(rows) - 1)),
                          rows[Len(rows)])

\* a sort with ascending=False
sort_by_date_descending(frame) ==
    IF IsEmpty(frame) THEN frame
    ELSE [frame EXCEPT !.rows = ResetIndex(SortValuesByDateDesc(frame.rows))]

\* df.sort_values('date').reset_index(drop=True)
sort_by_date(frame) ==
    IF IsEmpty(frame) THEN frame
    ELSE [frame EXCEPT !.rows = ResetIndex(SortValuesByDate(frame.rows))]

----------------------------------------------------------------------------
(* models.py *)

\* Field(pattern=r"^\d{4}-\d{2}$")
DatePattern(s) ==
    /\ Len(s) = 7
    /\ \A n \in {1, 2, 3, 4, 6, 7} : s[n] \in Digits
    /\ s[5] = "-"

\* a TradeRecord that checks its date only
TradeRecordValid_date_only(date, cell) == DatePattern(date)

\* TradeRecord(date=..., export_amount=...) passes validation (ge=0)
TradeRecordValid(date, cell) == DatePattern(date) /\ cell.k = "num" /\ cell.v >= 0

----------------------------------------------------------------------------
(* analysis.py *)

\* n / d rounded to the nearest integer, ties to the even one: Python's and
\* numpy's round() on the exactly represented quotient
RoundHalfEven(n, d) ==
    LET nn == IF d < 0 THEN -n ELSE n
        dd == IF d < 0 THEN -d ELSE d
        q == nn \div dd
        r == nn % dd
    IN  IF 2 * r < dd THEN q
        ELSE IF 2 * r > dd THEN q + 1
        ELSE IF q % 2 = 0 THEN q ELSE q + 1

\* a change that divides by the current value
calculate_percentage_change_by_current(cur, prev) ==
    IF cur = 0 THEN None ELSE Num(RoundHalfEven(10000 * (cur - prev), cur))

\* round(((current - previous) / previous) * 100, 2), in hundredths
calculate_percentage_change(cur, prev) ==
    IF prev = 0 THEN None ELSE Num(RoundHalfEven(10000 * (cur - prev), prev))

\* a MoM that compares every record with the first one
calculate_mom_against_first(recs) ==
    [n \in 1..Len(recs) |->
        [date |-> recs[n].date,
         export_amount |-> recs[n].export_amount,
         export_mom |-> IF n = 1 THEN None
                        ELSE calculate_percentage_change(recs[n].export_amount,
                                                         recs[1].export_amount),
         export_yoy |-> None]]

calculate_mom(recs) ==
    [n \in 1..Len(recs) |->
        [date |-> recs[n].date,
         export_amount |-> recs[n].export_amount,
         export_mom |-> IF n = 1 THEN None
                        ELSE calculate_percentage_change(recs[n].export_amount,
                                                         recs[n - 1].export_amount),
         export_yoy |-> None]]

\* str(n)
IntStr(n) == IF n < 0 THEN <<"-">> \o IntToStr(-n) ELSE IntToStr(n)

\* year, month = date.split('-'); f"{int(year) - 1}-{month}" (dates have
\* passed DatePattern, so the split yields the two digit groups)
PrevYearDate(date) ==
    IntStr(StrToInt(SubSeq(date, 1, 4)) - 1) \o <<"-">> \o SubSeq(date, 6, 7)

\* {r.date: r.export_amount for r in records}: a later record replaces an
\* earlier one of the same date
AmountByDate(recs, date) ==
    LET last == CHOOSE n \in 1..Len(recs) :
                    /\ recs[n].date = date
                    /\ \A m \in (n + 1)..Len(recs) : recs[m].date # date
    IN  recs[last].export_amount

\* a YoY that takes the record twelve positions back
calculate_yoy_positional(recs) ==
    [n \in 1..Len(recs) |->
        [recs[n] EXCEPT !.export_yoy =
            IF n > 12
            THEN calculate_percentage_change(recs[n].export_amount,
                                             recs[n - 12].export_amount)
            ELSE None]]

calculate_yoy(recs) ==
    [n \in 1..Len(recs) |->
        [recs[n] EXCEPT !.export_yoy =
            IF \E m \in 1..Len(recs) : recs[m].date = PrevYearDate(recs[n].date)
            THEN calculate_percentage_change(
                     recs[n].export_amount,
                     AmountByDate(recs, PrevYearDate(recs[n].date)))
            ELSE None]]

calculate_mom_and_yoy(recs) == calculate_yoy(calculate_mom(recs))

----------------------------------------------------------------------------
(* transformations.py: DataFrame <-> models *)

\* the rows of a table as TradeRecords (float(row['export_amount']))
dataframe_to_trade_records(frame) ==
    [n \in 1..Len(frame.rows) |->
        [date |-> frame.rows[n].date,
         export_amount |-> frame.rows[n].export_amount.v]]

\* some row fails TradeRecord's validation: ValueError
dataframe_to_trade_records_raises(frame) ==
    \E n \in 1..Len(frame.rows) :
        ~TradeRecordValid(frame.rows[n].date, frame.rows[n].export_amount)

\* a None of the model becomes NaN in the float column
OptionalToCell(x) == IF x = None THEN NaN ELSE x

analysis_results_to_dataframe(res) ==
    IF res = <<>> THEN EmptyFrame(MonthlyColumns)
    ELSE [columns |-> MonthlyColumns,
          rows |-> [n \in 1..Len(res) |->
                      [idx |-> n - 1,
                       date |-> res[n].date,
                       export_amount |-> Num(res[n].export_amount),
                       export_mom |-> OptionalToCell(res[n].export_mom),
                       export_yoy |-> OptionalToCell(res[n].export_yoy)]]]

----------------------------------------------------------------------------
(* data_processor.py *)

DateYear(date) == StrToInt(SubSeq(date, 1, 4))
DateMonth(date) == StrToInt(SubSeq(date, 6, 7))

\* pd.to_datetime(date + '-01') accepts the date (the years of the model lie
\* inside Timestamp's range)
IsCalendarMonth(date) == DatePattern(date) /\ DateMonth(date) \in 1..12

\* dt.to_period('Q').astype(str)
QuarterOf(date) ==
    IntToStr(DateYear(date)) \o <<"Q">> \o IntToStr((DateMonth(date) - 1) \div 3 + 1)

\* the ordinal of a quarterly Period
QuarterOrdinal(q) ==
    4 * StrToInt(SubSeq(q, 1, Len(q) - 2)) + DigitVal(q[Len(q)]) - 1

\* float arithmetic of (a - p) / p * 100 and of (a / p - 1) * 100, rounded
\* to two decimals: a zero divisor gives inf or NaN, not an exception
FloatPctChange(a, p) ==
    IF p = 0
    THEN (IF a > 0 THEN PosInf ELSE IF a < 0 THEN NegInf ELSE NaN)
    ELSE Num(RoundHalfEven(10000 * (a - p), p))

\* pd.to_datetime raises on some date of the table
process_quarterly_raises(frame) ==
    \E n \in 1..Len(frame.rows) : ~IsCalendarMonth(frame.rows[n].date)

QuarterRows(frame) ==
    [n \in 1..Len(frame.rows) |->
        [quarter |-> QuarterOf(frame.rows[n].date),
         export_amount |-> frame.rows[n].export_amount]]

\* a quarter label made of the month number divided by three, rounded down
QuarterOfFloor(date) ==
    IntToStr(DateYear(date)) \o <<"Q">> \o IntToStr(DateMonth(date) \div 3 + 1)

QuarterRowsFloor(frame) ==
    [n \in 1..Len(frame.rows) |->
        [quarter |-> QuarterOfFloor(frame.rows[n].date),
         export_amount |-> frame.rows[n].export_amount]]

\* a quarterly table whose qoq exists only against the calendar-adjacent quarter
QuarterlyTable_qoq_adjacent(qrows) ==
    LET keys == SortedStrings({r.quarter : r \in Range(qrows)})
        amount(n) == SumSkipNa(AmountsWhere(qrows, "quarter", keys[n]))
        hasPrevYear(n) ==
            \E m \in 1..Len(keys) : QuarterOrdinal(keys[m]) + 4 = QuarterOrdinal(keys[n])
        prevYear(n) ==
            CHOOSE m \in 1..Len(keys) : QuarterOrdinal(keys[m]) + 4 = QuarterOrdinal(keys[n])
    IN  [columns |-> QuarterlyColumns,
         rows |-> [n \in 1..Len(keys) |->
                     [idx |-> n - 1,
                      quarter |-> keys[n],
                      export_amount |-> Num(amount(n)),
                      export_qoq |->
                          IF n = 1 \/ QuarterOrdinal(keys[n - 1]) + 1 # QuarterOrdinal(keys[n])
                          THEN NaN
                          ELSE FloatPctChange(amount(n), amount(n - 1)),
                      export_yoy |-> IF hasPrevYear(n)
                                     THEN FloatPctChange(amount(n), amount(prevYear(n)))
                                     ELSE NaN]]]

\* a quarterly table whose yoy compares with the row before the previous one
QuarterlyTable_yoy_positional(qrows) ==
    LET keys == SortedStrings({r.quarter : r \in Range(qrows)})
        amount(n) == SumSkipNa(AmountsWhere(qrows, "quarter", keys[n]))
    IN  [columns |-> QuarterlyColumns,
         rows |-> [n \in 1..Len(keys) |->
                     [idx |-> n - 1,
                      quarter |-> keys[n],
                      export_amount |-> Num(amount(n)),
                      export_qoq |-> IF n = 1 THEN NaN
                                     ELSE FloatPctChange(amount(n), amount(n - 1)),
                      export_yoy |-> IF n > 2
                                     THEN FloatPctChange(amount(n), amount(n - 2))
                                     ELSE NaN]]]

\* the quarterly table built from rows labelled with their quarter
QuarterlyTable(qrows) ==
    LET keys == SortedStrings({r.quarter : r \in Range(qrows)})
        amount(n) == SumSkipNa(AmountsWhere(qrows, "quarter", keys[n]))
        hasPrevYear(n) ==
            \E m \in 1..Len(keys) : QuarterOrdinal(keys[m]) + 4 = QuarterOrdinal(keys[n])
        prevYear(n) ==
            CHOOSE m \in 1..Len(keys) : QuarterOrdinal(keys[m]) + 4 = QuarterOrdinal(keys[n])
    IN  [columns |-> QuarterlyColumns,
         rows |-> [n \in 1..Len(keys) |->
                     [idx |-> n - 1,
                      quarter |-> keys[n],
                      export_amount |-> Num(amount(n)),
                      export_qoq |-> IF n = 1 THEN NaN
                                     ELSE FloatPctChange(amount(n), amount(n - 1)),
                      export_yoy |-> IF hasPrevYear(n)
                                     THEN FloatPctChange(amount(n), amount(prevYear(n)))
                                     ELSE NaN]]]

process_quarterly_floor(frame) ==
    IF IsEmpty(frame) THEN EmptyFrame(QuarterlyColumns)
    ELSE QuarterlyTable(QuarterRowsFloor(frame))

\* group by quarter and sum, sort by quarter, pct_change(1), left merge with
\* the table shifted by four quarters, round(2)
process_quarterly(frame) ==
    IF IsEmpty(frame) THEN EmptyFrame(QuarterlyColumns)
    ELSE QuarterlyTable(QuarterRows(frame))

\* pd.to_datetime(df['date'] + '-01') raises on some date of the table
filter_by_year_raises(frame) ==
    \E n \in 1..Len(frame.rows) : ~IsCalendarMonth(frame.rows[n].date)

\* a filter that leaves the end year out
filter_by_year_exclusive_end(frame, start, end) ==
    [columns |-> frame.columns,
     rows |-> ResetIndex(SelectSeq(frame.rows,
                 LAMBDA r : DateYear(r.date) >= start /\ DateYear(r.date) < end))]

\* df.loc[(year >= start_year) & (year <= end_year)].reset_index(drop=True)
filter_by_year(frame, start, end) ==
    [columns |-> frame.columns,
     rows |-> ResetIndex(SelectSeq(frame.rows,
                 LAMBDA r : DateYear(r.date) >= start /\ DateYear(r.date) <= end))]

\* int(str(quarter)[:4])
QuarterLabelYear(q) == StrToInt(SubSeq(q, 1, 4))

\* the same mask on the year of the quarter label
filter_quarterly_by_year(frame, start, end) ==
    [columns |-> frame.columns,
     rows |-> ResetIndex(SelectSeq(frame.rows,
                 LAMBDA r : QuarterLabelYear(r.quarter) >= start
                            /\ QuarterLabelYear(r.quarter) <= end))]

----------------------------------------------------------------------------
(* dashboard_generator.py *)

\* str.replace(old, new) for one-character strings
Replace(s, old, new) == [n \in 1..Len(s) |-> IF s[n] = old THEN new ELSE s[n]]

\* str.split(sep)
RECURSIVE Split(_, _)
Split(s, sep) ==
    IF \A n \in 1..Len(s) : s[n] # sep THEN <<s>>
    ELSE LET k == CHOOSE n \in 1..Len(s) :
                      s[n] = sep /\ \A m \in 1..(n - 1) : s[m] # sep
         IN  <<SubSeq(s, 1, k - 1)>> \o Split(SubSeq(s, k + 1, Len(s)), sep)

\* int(s) returns for a string of digits (the strings of the model carry no
\* sign, blank or underscore) and raises ValueError otherwise
IsIntLiteral(s) == s # <<>> /\ \A n \in 1..Len(s) : s[n] \in Digits

IsLeap(year) == year % 4 = 0 /\ (year % 100 # 0 \/ year % 400 = 0)

\* calendar.monthrange(year, month)[1]
LastDay(year, month) ==
    IF month \in {1, 3, 5, 7, 8, 10, 12} THEN 31
    ELSE IF month # 2 THEN 30
    ELSE IF IsLeap(year) THEN 29 ELSE 28

DaysBeforeYear(year) ==
    365 * (year - 1) + (year - 1) \div 4 - (year - 1) \div 100 + (year - 1) \div 400

RECURSIVE DaysBeforeMonth(_, _)
DaysBeforeMonth(year, month) ==
    IF month = 1 THEN 0
    ELSE DaysBeforeMonth(year, month - 1) + LastDay(year, month - 1)

\* date(year, month, day).weekday(): Monday is 0
Weekday(year, month, day) ==
    (DaysBeforeYear(year) + DaysBeforeMonth(year, month) + day + 6) % 7

\* a count that takes Saturday for a business day
RECURSIVE CountBusinessDays_with_saturdays(_, _, _, _, _)
CountBusinessDays_with_saturdays(year, month, day, last_day, holidays) ==
    IF day > last_day THEN 0
    ELSE (IF Weekday(year, month, day) >= 6 THEN 0
          ELSE IF <<year, month, day>> \in holidays THEN 0
          ELSE 1)
         + CountBusinessDays_with_saturdays(year, month, day + 1, last_day, holidays)

\* the loop over range(day, last_day + 1) that counts the business days
RECURSIVE CountBusinessDays(_, _, _, _, _)
CountBusinessDays(year, month, day, last_day, holidays) ==
    IF day > last_day THEN 0
    ELSE (IF Weekday(year, month, day) >= 5 THEN 0
          ELSE IF <<year, month, day>> \in holidays THEN 0
          ELSE 1)
         + CountBusinessDays(year, month, day + 1, last_day, holidays)

\* b_days of one row; a ValueError inside the try leaves it 0
BusinessDays(date, holidays) ==
    LET date_str == Replace(date, "-", "/")
        parts == Split(date_str, "/")
    IN  IF Len(date_str) # 7 THEN 0
        ELSE IF ~IsIntLiteral(parts[1]) THEN 0
        ELSE IF ~IsIntLiteral(parts[2]) THEN 0
        ELSE LET year == StrToInt(parts[1])
                 month == StrToInt(parts[2])
             IN  IF month \notin 1..12 \/ year \notin 1..9999 THEN 0
                 ELSE CountBusinessDays(year, month, 1, LastDay(year, month), holidays)

\* parts[1] does not exist: IndexError, which the try does not catch
BusinessDaysRaises(date) ==
    LET date_str == Replace(date, "-", "/")
        parts == Split(date_str, "/")
    IN  Len(date_str) = 7 /\ Len(parts) < 2 /\ IsIntLiteral(parts[1])

\* d_avg of one row
DailyAvg(amount, b_days) == IF b_days > 0 THEN RoundHalfEven(amount, b_days) ELSE 0

add_business_days_and_daily_avg_raises(frame) ==
    \E n \in 1..Len(frame.rows) : BusinessDaysRaises(frame.rows[n].date)

add_business_days_and_daily_avg(frame, holidays) ==
    [columns |-> frame.columns \o <<"business_days", "daily_avg">>,
     rows |-> [n \in 1..Len(frame.rows) |->
        LET b_days == BusinessDays(frame.rows[n].date, holidays)
        IN  frame.rows[n] @@
            [business_days |-> b_days,
             daily_avg |-> DailyAvg(frame.rows[n].export_amount.v, b_days)]]]

\* float arithmetic of (a / p - 1) * 100 and of (a - p) / p * 100, rounded to
\* a whole number (exact for the divisors of the model, all below 40): a zero
\* divisor gives inf or NaN, not an exception
FloatPctChangeInt(a, p) ==
    IF p = 0
    THEN (IF a > 0 THEN PosInf ELSE IF a < 0 THEN NegInf ELSE NaN)
    ELSE Num(RoundHalfEven(100 * (a - p), p))

\* a change taken against the first row of the table
add_daily_avg_mom_against_first(frame) ==
    [columns |-> frame.columns \o <<"daily_avg_mom">>,
     rows |-> [n \in 1..Len(frame.rows) |->
        frame.rows[n] @@
        [daily_avg_mom |->
            IF n = 1 THEN NaN
            ELSE FloatPctChangeInt(frame.rows[n].daily_avg, frame.rows[1].daily_avg)]]]

\* pct_change(periods=1) * 100, round(0)
add_daily_avg_mom(frame) ==
    [columns |-> frame.columns \o <<"daily_avg_mom">>,
     rows |-> [n \in 1..Len(frame.rows) |->
        frame.rows[n] @@
        [daily_avg_mom |->
            IF n = 1 THEN NaN
            ELSE FloatPctChangeInt(frame.rows[n].daily_avg, frame.rows[n - 1].daily_avg)]]]

\* date.str.replace('/', '-')
DashDate(date) == Replace(date, "/", "-")

\* pd.to_datetime(... + '-01') raises on some date of the table
to_datetime_raises(frame) ==
    \E n \in 1..Len(frame.rows) : ~IsCalendarMonth(DashDate(frame.rows[n].date))

\* temp_date, counted in months
TempDate(date) == 12 * DateYear(DashDate(date)) + DateMonth(DashDate(date))

\* positions m >= from of the right table whose match_date is row n's temp_date
RECURSIVE MatchesFrom(_, _, _)
MatchesFrom(frame, n, from) ==
    IF from > Len(frame.rows) THEN <<>>
    ELSE (IF TempDate(frame.rows[from].date) + 12 = TempDate(frame.rows[n].date)
          THEN <<from>> ELSE <<>>)
         \o MatchesFrom(frame, n, from + 1)

\* pd.merge(..., how='left'): the rows of the left table from row n on, each
\* once per matching right row, or once with a NaN when nothing matches
RECURSIVE MergeLeftFrom(_, _)
MergeLeftFrom(frame, n) ==
    IF n > Len(frame.rows) THEN <<>>
    ELSE LET ms == MatchesFrom(frame, n, 1)
             own == IF ms = <<>>
                    THEN <<[daily_avg |-> frame.rows[n].daily_avg,
                            daily_avg_prev |-> NaN]>>
                    ELSE [k \in 1..Len(ms) |->
                            [daily_avg |-> frame.rows[n].daily_avg,
                             daily_avg_prev |-> Num(frame.rows[ms[k]].daily_avg)]]
         IN  own \o MergeLeftFrom(frame, n + 1)

\* a change taken against the row just before
add_daily_avg_yoy_previous_row(frame) ==
    [columns |-> frame.columns \o <<"daily_avg_yoy">>,
     rows |-> [n \in 1..Len(frame.rows) |->
        frame.rows[n] @@
        [daily_avg_yoy |->
            IF n = 1 THEN NaN
            ELSE FloatPctChangeInt(frame.rows[n].daily_avg, frame.rows[n - 1].daily_avg)]]]

\* the merged table has a fresh 0..n-1 index; the column computed from it is
\* assigned to enriched by index label
add_daily_avg_yoy(frame) ==
    LET merged == MergeLeftFrom(frame, 1)
        yoy(label) ==
            IF label + 1 \notin 1..Len(merged) THEN NaN
            ELSE IF merged[label + 1].daily_avg_prev = NaN THEN NaN
            ELSE FloatPctChangeInt(merged[label + 1].daily_avg,
                                   merged[label + 1].daily_avg_prev.v)
    IN  [columns |-> frame.columns \o <<"daily_avg_yoy">>,
         rows |-> [n \in 1..Len(frame.rows) |->
            frame.rows[n] @@ [daily_avg_yoy |-> yoy(frame.rows[n].idx)]]]

\* dt.to_period('Q') of a row
RowQuarter(row) == QuarterOf(DashDate(row.date))

RECURSIVE SumDailyAvg(_, _, _)
SumDailyAvg(frame, q, n) ==
    IF n > Len(frame.rows) THEN 0
    ELSE (IF RowQuarter(frame.rows[n]) = q THEN frame.rows[n].daily_avg ELSE 0)
         + SumDailyAvg(frame, q, n + 1)

\* enriched[q_mask]['temp_date'].idxmax(): the first row of quarter q holding
\* the quarter's latest date
LastPosition(frame, q) ==
    CHOOSE n \in 1..Len(frame.rows) :
        /\ RowQuarter(frame.rows[n]) = q
        /\ \A m \in 1..Len(frame.rows) :
              RowQuarter(frame.rows[m]) = q =>
                  /\ TempDate(frame.rows[m].date) <= TempDate(frame.rows[n].date)
                  /\ TempDate(frame.rows[m].date) = TempDate(frame.rows[n].date) => n <= m

ClosingMonths == {3, 6, 9, 12}
QuarterColumns == <<"quarter_b", "quarter_c", "quarter_d", "quarter_e">>

NoQuarterStats ==
    [quarter_b |-> None, quarter_c |-> None, quarter_d |-> None, quarter_e |-> None]

\* a quarter average taken over the rows present in the quarter
QuarterStats_mean_of_present(frame, keys, k) ==
    LET quarter_b(j) == SumDailyAvg(frame, keys[j], 1)
        present(j) == Cardinality({n \in 1..Len(frame.rows) :
                                      RowQuarter(frame.rows[n]) = keys[j]})
        quarter_c(j) == RoundHalfEven(quarter_b(j), present(j))
    IN  [quarter_b |-> Num(quarter_b(k)),
         quarter_c |-> Num(quarter_c(k)),
         quarter_d |-> IF k <= 1 THEN NaN
                       ELSE FloatPctChangeInt(quarter_c(k), quarter_c(k - 1)),
         quarter_e |-> IF k <= 4 THEN NaN
                       ELSE FloatPctChangeInt(quarter_c(k), quarter_c(k - 4))]

\* the statistics of the k-th quarter of the sorted quarters keys
QuarterStats(frame, keys, k) ==
    LET quarter_b(j) == SumDailyAvg(frame, keys[j], 1)
        quarter_c(j) == RoundHalfEven(quarter_b(j), 3)
    IN  [quarter_b |-> Num(quarter_b(k)),
         quarter_c |-> Num(quarter_c(k)),
         quarter_d |-> IF k <= 1 THEN NaN
                       ELSE FloatPctChangeInt(quarter_c(k), quarter_c(k - 1)),
         quarter_e |-> IF k <= 4 THEN NaN
                       ELSE FloatPctChangeInt(quarter_c(k), quarter_c(k - 4))]

\* quarterly statistics written on every row of a quarter
add_quarterly_stats_every_row(frame) ==
    LET keys == SortedStrings({RowQuarter(r) : r \in Range(frame.rows)})
        pos(q) == CHOOSE k \in 1..Len(keys) : keys[k] = q
    IN  [columns |-> frame.columns \o QuarterColumns,
         rows |-> [n \in 1..Len(frame.rows) |->
            frame.rows[n] @@ QuarterStats(frame, keys, pos(RowQuarter(frame.rows[n])))]]

\* group by quarter, sum, pct_change(1) and pct_change(4); the values go to
\* the row labelled last_idx when its month closes a quarter
add_quarterly_stats(frame) ==
    LET keys == SortedStrings({RowQuarter(r) : r \in Range(frame.rows)})
        pos(q) == CHOOSE k \in 1..Len(keys) : keys[k] = q
        written(n) ==
            LET q == RowQuarter(frame.rows[n])
                last == frame.rows[LastPosition(frame, q)]
            IN  /\ frame.rows[n].idx = last.idx
                /\ DateMonth(DashDate(last.date)) \in ClosingMonths
    IN  [columns |-> frame.columns \o QuarterColumns,
         rows |-> [n \in 1..Len(frame.rows) |->
            frame.rows[n] @@
            (IF written(n)
             THEN QuarterStats(frame, keys, pos(RowQuarter(frame.rows[n])))
             ELSE NoQuarterStats)]]

----------------------------------------------------------------------------
(* pipeline.py *)

\* float(row['export_amount']) with ValueError and TypeError turned into 0.0:
\* a float cell (NaN included) is returned as it is
to_float_or_zero(cell) == IF cell.k \in {"none", "str"} THEN Num(0) ELSE cell

\* a loop body that skips a row whose amount float() rejects
parse_row_skip_unparsable(cur_year, data, row) ==
    LET period_val == Strip(row.period_raw)
        ym == parse_period_row(period_val, cur_year)
        year == ym[1]
        month == ym[2]
    IN  IF year # NoStr /\ month = NoStr
        THEN [current_year |-> year, processed_data |-> data]
        ELSE IF year # NoStr /\ month # NoStr /\ row.export_amount.k \notin {"none", "str"}
        THEN [current_year |-> cur_year,
              processed_data |->
                  Append(data, [date |-> format_date(year, month),
                                export_amount |-> row.export_amount])]
        ELSE [current_year |-> cur_year, processed_data |-> data]

\* one iteration of the loop over df_selected.iterrows()
parse_row(cur_year, data, row) ==
    LET period_val == Strip(row.period_raw)
        ym == parse_period_row(period_val, cur_year)
        year == ym[1]
        month == ym[2]
    IN  IF year # NoStr /\ month = NoStr
        THEN [current_year |-> year, processed_data |-> data]
        ELSE IF year # NoStr /\ month # NoStr
        THEN [current_year |-> cur_year,
              processed_data |->
                  Append(data, [date |-> format_date(year, month),
                                export_amount |-> to_float_or_zero(row.export_amount)])]
        ELSE [current_year |-> cur_year, processed_data |-> data]

\* pd.DataFrame(processed_data)
DataFrameOf(data) ==
    [columns |-> DateColumns,
     rows |-> [n \in 1..Len(data) |->
                 [idx |-> n - 1, date |-> data[n].date,
                  export_amount |-> data[n].export_amount]]]

\* the loop over df_selected.iterrows()
RECURSIVE ParseLoop(_, _, _)
ParseLoop(rows, cur_year, data) ==
    IF rows = <<>> THEN data
    ELSE LET next == parse_row(cur_year, data, Head(rows))
         IN  ParseLoop(Tail(rows), next.current_year, next.processed_data)

\* parse_and_aggregate_dataframe as a function of the raw table
parse_and_aggregate_dataframe(table) ==
    IF table = <<>> THEN EmptyFrame(DateColumns)
    ELSE LET data == ParseLoop(table, NoStr, <<>>)
         IN  IF data = <<>> THEN EmptyFrame(DateColumns)
             ELSE sort_by_date(aggregate_by_date(DataFrameOf(data)))

----------------------------------------------------------------------------
(* cli.py: _merge_downloaded_files *)

\* a merge that drops the rows already seen
RECURSIVE concat_drop_duplicates(_)
concat_drop_duplicates(dfs) ==
    IF dfs = <<>> THEN <<>>
    ELSE LET before == concat_drop_duplicates(SubSeq(dfs, 1, Len(dfs) - 1))
         IN  before \o SelectSeq(dfs[Len(dfs)], LAMBDA r : r \notin Range(before))

\* pd.concat(all_raw_dfs, ignore_index=True)
RECURSIVE concat(_)
concat(dfs) ==
    IF dfs = <<>> THEN <<>>
    ELSE concat(SubSeq(dfs, 1, Len(dfs) - 1)) \o dfs[Len(dfs)]

----------------------------------------------------------------------------
(* Inputs *)

Y2023 == <<"2", "0", "2", "3", "Y">>
Y2024 == <<"2", "0", "2", "4", "Y">>
M01 == <<"0", "1", "M">>
M1 == <<" ", "1", "M", " ">>
M02 == <<"0", "2", "M">>
M13 == <<"1", "3", "M">>
Total == <<"x", "x">>

Row(label, cell) == [period_raw |-> label, export_amount |-> cell]

\* the rows a raw table is made of
RawRows ==
    {Row(Y2023, NaN), Row(Y2024, NaN),
     Row(M01, Num(10)), Row(M1, Num(15)), Row(M01, BadStr), Row(M01, Num(-20)),
     Row(M02, Num(20)), Row(M02, NaN), Row(M02, None),
     Row(M13, Num(10)), Row(Total, Num(10))}

RECURSIVE SeqsUpTo(_, _)
SeqsUpTo(S, n) ==
    IF n = 0 THEN {<<>>}
    ELSE SeqsUpTo(S, n - 1) \cup
         {Append(s, x) : s \in {t \in SeqsUpTo(S, n - 1) : Len(t) = n - 1}, x \in S}

D2301 == <<"2", "0", "2", "3", "-", "0", "1">>
D2303 == <<"2", "0", "2", "3", "-", "0", "3">>
D2304 == <<"2", "0", "2", "3", "-", "0", "4">>
D2401 == <<"2", "0", "2", "4", "-", "0", "1">>
D2413 == <<"2", "0", "2", "4", "-", "1", "3">>

\* the TradeRecords a record list is made of
TradeRecords ==
    {[date |-> d, export_amount |-> a] :
        d \in {D2301, D2303, D2304, D2401, D2413}, a \in {0, 10, 15}}

NoFrame == [columns |-> <<>>, rows |-> <<>>]

D2402 == <<"2", "0", "2", "4", "-", "0", "2">>
D2403 == <<"2", "0", "2", "4", "-", "0", "3">>

\* the TradeRecords a monthly table given to enrich_data is made of
MonthRecords ==
    {[date |-> d, export_amount |-> a] :
        d \in {D2303, D2401, D2402, D2403, D2413}, a \in {0, 315}}

\* the rows a downloaded raw table is made of
MergeRows ==
    {Row(Y2023, NaN), Row(Y2024, NaN),
     Row(M01, Num(10)), Row(M1, Num(15)), Row(M02, Num(20)), Row(Total, Num(10))}

\* what holidays.KR() may hold for the months of the model: nothing, or the
\* public holidays of those months (2024-02-10 is a Saturday)
HolidayCalendars ==
    {{},
     {<<2023, 1, 23>>, <<2023, 3, 1>>, <<2024, 1, 1>>, <<2024, 2, 9>>,
      <<2024, 2, 10>>, <<2024, 3, 1>>}}

----------------------------------------------------------------------------
(* The report workflow: process(raw_df), then process_quarterly(monthly_df) *)

\* nothing filtered, nothing enriched, nothing merged yet
IdleServices ==
    /\ start_year = 0 /\ end_year = 0
    /\ monthly_df_filtered = NoFrame /\ quarterly_df_filtered = NoFrame
    /\ kr_holidays = {} /\ enriched = NoFrame
    /\ all_raw_dfs = <<>>

Idle ==
    /\ IdleServices
    /\ i = 0 /\ current_year = NoStr /\ processed_data = <<>>
    /\ parsed_df = NoFrame /\ records = <<>> /\ results = <<>>
    /\ monthly_df = NoFrame /\ quarterly_df = NoFrame
    /\ current = 0 /\ previous = 0 /\ change = None

Init ==
    /\ df \in SeqsUpTo(RawRows, MaxRows)
    /\ pc = "start"
    /\ Idle

\* parse_and_aggregate_dataframe up to the loop
EnterParse ==
    /\ pc = "start"
    /\ IF df = <<>>
       THEN parsed_df' = EmptyFrame(DateColumns) /\ pc' = "parsed"
       ELSE parsed_df' = parsed_df /\ pc' = "loop"
    /\ UNCHANGED <<mergeVars, filterVars, enrichVars, df, i, current_year, processed_data, records, results,
                   monthly_df, quarterly_df, current, previous, change>>

ParseRow ==
    /\ pc = "loop"
    /\ i < Len(df)
    /\ LET next == parse_row(current_year, processed_data, df[i + 1])
       IN  /\ current_year' = next.current_year
           /\ processed_data' = next.processed_data
    /\ i' = i + 1
    /\ UNCHANGED <<mergeVars, filterVars, enrichVars, pc, df, parsed_df, records, results, monthly_df, quarterly_df,
                   current, previous, change>>

EndParse ==
    /\ pc = "loop"
    /\ i = Len(df)
    /\ IF processed_data = <<>>
       THEN parsed_df' = EmptyFrame(DateColumns) /\ pc' = "parsed"
       ELSE parsed_df' = DataFrameOf(processed_data) /\ pc' = "aggregate"
    /\ UNCHANGED <<mergeVars, filterVars, enrichVars, df, i, current_year, processed_data, records, results,
                   monthly_df, quarterly_df, current, previous, change>>

Aggregate ==
    /\ pc = "aggregate"
    /\ parsed_df' = aggregate_by_date(parsed_df)
    /\ pc' = "sort"
    /\ UNCHANGED <<mergeVars, filterVars, enrichVars, df, i, current_year, processed_data, records, results,
                   monthly_df, quarterly_df, current, previous, change>>

Sort ==
    /\ pc = "sort"
    /\ parsed_df' = sort_by_date(parsed_df)
    /\ pc' = "parsed"
    /\ UNCHANGED <<mergeVars, filterVars, enrichVars, df, i, current_year, processed_data, records, results,
                   monthly_df, quarterly_df, current, previous, change>>

\* process_trade_data after parse_and_aggregate_dataframe has returned
ToTradeRecords ==
    /\ pc = "parsed"
    /\ IF IsEmpty(parsed_df)
       THEN /\ monthly_df' = EmptyFrame(MonthlyColumns)
            /\ records' = records
            /\ pc' = "monthly"
       ELSE IF dataframe_to_trade_records_raises(parsed_df)
       THEN /\ UNCHANGED <<filterVars, enrichVars, monthly_df, records>>
            /\ pc' = "raised"
       ELSE /\ records' = dataframe_to_trade_records(parsed_df)
            /\ monthly_df' = monthly_df
            /\ pc' = "mom"
    /\ UNCHANGED <<mergeVars, filterVars, enrichVars, df, i, current_year, processed_data, parsed_df, results,
                   quarterly_df, current, previous, change>>

CalculateMom ==
    /\ pc = "mom"
    /\ results' = calculate_mom(records)
    /\ pc' = "yoy"
    /\ UNCHANGED <<mergeVars, filterVars, enrichVars, df, i, current_year, processed_data, parsed_df, records,
                   monthly_df, quarterly_df, current, previous, change>>

CalculateYoy ==
    /\ pc = "yoy"
    /\ results' = calculate_yoy(results)
    /\ pc' = "to_dataframe"
    /\ UNCHANGED <<mergeVars, filterVars, enrichVars, df, i, current_year, processed_data, parsed_df, records,
                   monthly_df, quarterly_df, current, previous, change>>

ToDataframe ==
    /\ pc = "to_dataframe"
    /\ monthly_df' = analysis_results_to_dataframe(results)
    /\ pc' = "monthly"
    /\ UNCHANGED <<mergeVars, filterVars, enrichVars, df, i, current_year, processed_data, parsed_df, records,
                   results, quarterly_df, current, previous, change>>

ProcessQuarterly ==
    /\ pc = "monthly"
    /\ IF process_quarterly_raises(monthly_df)
       THEN quarterly_df' = quarterly_df /\ pc' = "raised"
       ELSE quarterly_df' = process_quarterly(monthly_df) /\ pc' = "done"
    /\ UNCHANGED <<mergeVars, filterVars, enrichVars, df, i, current_year, processed_data, parsed_df, records,
                   results, monthly_df, current, previous, change>>

\* cli.py: the year range the report command is given
StartYears == {2023, 2024, 2025}
EndYears == {2023, 2024}

\* cli.py: filter_start_year = start_year - 1
FilterStartYear == start_year - 1

\* processor.filter_by_year(monthly_df_all, filter_start_year, end_year)
FilterByYear ==
    /\ pc = "done"
    /\ \E s \in StartYears, e \in EndYears :
          /\ start_year' = s
          /\ end_year' = e
          /\ IF filter_by_year_raises(monthly_df)
             THEN monthly_df_filtered' = monthly_df_filtered /\ pc' = "raised"
             ELSE /\ monthly_df_filtered' = filter_by_year(monthly_df, s - 1, e)
                  /\ pc' = "filter_quarterly"
    /\ UNCHANGED <<mergeVars, df, i, current_year, processed_data, parsed_df, records, results,
                   monthly_df, quarterly_df, current, previous, change,
                   quarterly_df_filtered, enrichVars>>

\* processor.filter_quarterly_by_year(quarterly_df_all, filter_start_year, end_year)
FilterQuarterlyByYear ==
    /\ pc = "filter_quarterly"
    /\ quarterly_df_filtered' =
          filter_quarterly_by_year(quarterly_df, FilterStartYear, end_year)
    /\ pc' = "filtered"
    /\ UNCHANGED <<mergeVars, df, i, current_year, processed_data, parsed_df, records, results,
                   monthly_df, quarterly_df, current, previous, change,
                   start_year, end_year, monthly_df_filtered, enrichVars>>

\* enrich_data(monthly_df): _add_business_days_and_daily_avg
AddBusinessDaysAndDailyAvg ==
    /\ pc = "monthly"
    /\ \E h \in HolidayCalendars :
          /\ kr_holidays' = h
          /\ IF add_business_days_and_daily_avg_raises(monthly_df)
             THEN enriched' = enriched /\ pc' = "enrich_raised"
             ELSE /\ enriched' = add_business_days_and_daily_avg(monthly_df, h)
                  /\ pc' = "daily_avg_mom"
    /\ UNCHANGED <<mergeVars, df, i, current_year, processed_data, parsed_df, records, results,
                   monthly_df, quarterly_df, current, previous, change, filterVars>>

\* enrich_data: _add_daily_avg_mom
AddDailyAvgMom ==
    /\ pc = "daily_avg_mom"
    /\ enriched' = add_daily_avg_mom(enriched)
    /\ pc' = "daily_avg_yoy"
    /\ UNCHANGED <<mergeVars, df, i, current_year, processed_data, parsed_df, records, results,
                   monthly_df, quarterly_df, current, previous, change, filterVars,
                   kr_holidays>>

\* enrich_data: _add_daily_avg_yoy
AddDailyAvgYoy ==
    /\ pc = "daily_avg_yoy"
    /\ IF to_datetime_raises(enriched)
       THEN enriched' = enriched /\ pc' = "enrich_raised"
       ELSE enriched' = add_daily_avg_yoy(enriched) /\ pc' = "quarterly_stats"
    /\ UNCHANGED <<mergeVars, df, i, current_year, processed_data, parsed_df, records, results,
                   monthly_df, quarterly_df, current, previous, change, filterVars,
                   kr_holidays>>

\* enrich_data: _add_quarterly_stats, and the return
AddQuarterlyStats ==
    /\ pc = "quarterly_stats"
    /\ IF to_datetime_raises(enriched)
       THEN enriched' = enriched /\ pc' = "enrich_raised"
       ELSE enriched' = add_quarterly_stats(enriched) /\ pc' = "enriched"
    /\ UNCHANGED <<mergeVars, df, i, current_year, processed_data, parsed_df, records, results,
                   monthly_df, quarterly_df, current, previous, change, filterVars,
                   kr_holidays>>

\* the monthly table filtered first and enriched afterwards
FilterEnriched_then_enrich ==
    /\ pc = "enriched"
    /\ \E s \in StartYears, e \in EndYears :
          /\ start_year' = s
          /\ end_year' = e
          /\ monthly_df_filtered' =
                add_quarterly_stats(add_daily_avg_yoy(add_daily_avg_mom(
                    add_business_days_and_daily_avg(filter_by_year(monthly_df, s, e),
                                                    kr_holidays))))
          /\ pc' = "dashboard"
    /\ UNCHANGED <<mergeVars, df, i, current_year, processed_data, parsed_df, records, results,
                   monthly_df, quarterly_df, current, previous, change,
                   quarterly_df_filtered, enrichVars>>

\* _generate_dashboard: processor.filter_by_year(enriched_all, start_year, end_year)
FilterEnriched ==
    /\ pc = "enriched"
    /\ \E s \in StartYears, e \in EndYears :
          /\ start_year' = s
          /\ end_year' = e
          /\ IF filter_by_year_raises(enriched)
             THEN monthly_df_filtered' = monthly_df_filtered /\ pc' = "raised"
             ELSE /\ monthly_df_filtered' = filter_by_year(enriched, s, e)
                  /\ pc' = "dashboard"
    /\ UNCHANGED <<mergeVars, df, i, current_year, processed_data, parsed_df, records, results,
                   monthly_df, quarterly_df, current, previous, change,
                   quarterly_df_filtered, enrichVars>>

Next ==
    \/ EnterParse
    \/ ParseRow
    \/ EndParse
    \/ Aggregate
    \/ Sort
    \/ ToTradeRecords
    \/ CalculateMom
    \/ CalculateYoy
    \/ ToDataframe
    \/ ProcessQuarterly

Spec == Init /\ [][Next]_vars

----------------------------------------------------------------------------
(* The report and dashboard workflows on a short raw table: process(raw_df),
   then process_quarterly(monthly_df), or enrich_data(monthly_df) and the
   dashboard's year filter *)

InitDashboard ==
    /\ df \in SeqsUpTo(RawRows, MaxDashboardRows)
    /\ pc = "start"
    /\ Idle

NextDashboard ==
    \/ EnterParse
    \/ ParseRow
    \/ EndParse
    \/ Aggregate
    \/ Sort
    \/ ToTradeRecords
    \/ CalculateMom
    \/ CalculateYoy
    \/ ToDataframe
    \/ ProcessQuarterly
    \/ AddBusinessDaysAndDailyAvg
    \/ AddDailyAvgMom
    \/ AddDailyAvgYoy
    \/ AddQuarterlyStats
    \/ FilterEnriched

SpecDashboard == InitDashboard /\ [][NextDashboard]_vars

----------------------------------------------------------------------------
(* calculate_mom_and_yoy, process_quarterly and the year filters called on a
   record list *)

InitAnalysis ==
    /\ IdleServices
    /\ records \in SeqsUpTo(TradeRecords, MaxRecords)
    /\ pc = "mom"
    /\ df = <<>>
    /\ i = 0 /\ current_year = NoStr /\ processed_data = <<>>
    /\ parsed_df = NoFrame /\ results = <<>>
    /\ monthly_df = NoFrame /\ quarterly_df = NoFrame
    /\ current = 0 /\ previous = 0 /\ change = None

NextAnalysis ==
    \/ CalculateMom
    \/ CalculateYoy
    \/ ToDataframe
    \/ ProcessQuarterly
    \/ FilterByYear
    \/ FilterQuarterlyByYear

SpecAnalysis == InitAnalysis /\ [][NextAnalysis]_vars

----------------------------------------------------------------------------
(* enrich_data called on a monthly table, and the dashboard's year filter *)

InitEnrich ==
    /\ \E recs \in SeqsUpTo(MonthRecords, MaxMonths) :
          monthly_df = analysis_results_to_dataframe(calculate_mom_and_yoy(recs))
    /\ pc = "monthly"
    /\ IdleServices
    /\ df = <<>>
    /\ i = 0 /\ current_year = NoStr /\ processed_data = <<>>
    /\ parsed_df = NoFrame /\ records = <<>> /\ results = <<>>
    /\ quarterly_df = NoFrame
    /\ current = 0 /\ previous = 0 /\ change = None

NextEnrich ==
    \/ AddBusinessDaysAndDailyAvg
    \/ AddDailyAvgMom
    \/ AddDailyAvgYoy
    \/ AddQuarterlyStats
    \/ FilterEnriched

SpecEnrich == InitEnrich /\ [][NextEnrich]_vars

----------------------------------------------------------------------------
(* _merge_downloaded_files: two raw tables concatenated, then parsed and
   aggregated *)

InitMerge ==
    /\ all_raw_dfs \in {<<a, b>> : a \in SeqsUpTo(MergeRows, MaxMergeRows),
                                   b \in SeqsUpTo(MergeRows, MaxMergeRows)}
    /\ pc = "merge"
    /\ df = <<>>
    /\ start_year = 0 /\ end_year = 0
    /\ monthly_df_filtered = NoFrame /\ quarterly_df_filtered = NoFrame
    /\ kr_holidays = {} /\ enriched = NoFrame
    /\ i = 0 /\ current_year = NoStr /\ processed_data = <<>>
    /\ parsed_df = NoFrame /\ records = <<>> /\ results = <<>>
    /\ monthly_df = NoFrame /\ quarterly_df = NoFrame
    /\ current = 0 /\ previous = 0 /\ change = None

\* merged_raw = pd.concat(all_raw_dfs, ignore_index=True)
MergeRaw ==
    /\ pc = "merge"
    /\ df' = concat(all_raw_dfs)
    /\ pc' = "start"
    /\ UNCHANGED <<mergeVars, filterVars, enrichVars, i, current_year, processed_data,
                   parsed_df, records, results, monthly_df, quarterly_df, current,
                   previous, change>>

NextMerge ==
    \/ MergeRaw
    \/ EnterParse
    \/ ParseRow
    \/ EndParse
    \/ Aggregate
    \/ Sort

SpecMerge == InitMerge /\ [][NextMerge]_vars

----------------------------------------------------------------------------
(* calculate_percentage_change called on two numbers *)

InitChange ==
    /\ IdleServices
    /\ current \in -MaxValue..MaxValue
    /\ previous \in -MaxValue..MaxValue
    /\ change = None
    /\ pc = "change"
    /\ df = <<>>
    /\ i = 0 /\ current_year = NoStr /\ processed_data = <<>>
    /\ parsed_df = NoFrame /\ records = <<>> /\ results = <<>>
    /\ monthly_df = NoFrame /\ quarterly_df = NoFrame

CalculatePercentageChange ==
    /\ pc = "change"
    /\ change' = calculate_percentage_change(current, previous)
    /\ pc' = "returned"
    /\ UNCHANGED <<mergeVars, filterVars, enrichVars, df, i, current_year, processed_data, parsed_df, records,
                   results, monthly_df, quarterly_df, current, previous>>

NextChange == CalculatePercentageChange

SpecChange == InitChange /\ [][NextChange]_vars

----------------------------------------------------------------------------
(* What the specification says of a raw table, stated without the parser *)

\* 4 digits followed by the year marker
IsYearLabel(label) ==
    LET s == Strip(label)
    IN  Len(s) >= 5 /\ s[1] \in Digits /\ s[2] \in Digits /\ s[3] \in Digits
                    /\ s[4] \in Digits /\ s[5] = "Y"

\* 1 or 2 digits followed by the month marker
IsMonthLabel(label) ==
    LET s == Strip(label)
    IN  \/ Len(s) >= 2 /\ s[1] \in Digits /\ s[2] = "M"
        \/ Len(s) >= 3 /\ s[1] \in Digits /\ s[2] \in Digits /\ s[3] = "M"

YearDigits(label) == SubSeq(Strip(label), 1, 4)

\* the month of a month label, padded to two digits
MonthDigits(label) ==
    LET s == Strip(label) IN IF s[2] = "M" THEN <<"0", s[1]>> ELSE <<s[1], s[2]>>

\* the most recent year row among the first k rows of df; 0 when there is none
LastYearRow(k) ==
    IF \E j \in 1..k : IsYearLabel(df[j].period_raw)
    THEN CHOOSE j \in 1..k :
            /\ IsYearLabel(df[j].period_raw)
            /\ \A m \in (j + 1)..k : ~IsYearLabel(df[m].period_raw)
    ELSE 0

\* row k is a month row with a year row somewhere before it
Emits(k) == IsMonthLabel(df[k].period_raw) /\ LastYearRow(k - 1) > 0

\* the date such a row stands for
RowDate(k) ==
    YearDigits(df[LastYearRow(k - 1)].period_raw) \o <<"-">> \o MonthDigits(df[k].period_raw)

\* an amount cell as a number: a blank or unparsable cell counts 0
CellValue(cell) == IF cell.k = "num" THEN cell.v ELSE 0

RECURSIVE SumFn(_)
SumFn(f) ==
    IF DOMAIN f = {} THEN 0
    ELSE LET k == CHOOSE k \in DOMAIN f : TRUE
         IN  f[k] + SumFn([j \in DOMAIN f \ {k} |-> f[j]])

\* a ParseRow step
LoopStep == pc = "loop" /\ i' = i + 1

----------------------------------------------------------------------------
(* C1..C3: the period parser *)

\* C1: a year row emits no pair, and every pair emitted carries as its year the
\* four digits of the most recent year row before the row that emitted it; a
\* later year row replaces the context, and a set context is never unset.
C1_YearContext ==
    [][LoopStep =>
        /\ IsYearLabel(df[i'].period_raw) =>
              /\ processed_data' = processed_data
              /\ current_year' = YearDigits(df[i'].period_raw)
        /\ Len(processed_data') > Len(processed_data) =>
              /\ LastYearRow(i) > 0
              /\ SubSeq(processed_data'[Len(processed_data')].date, 1, 4)
                     = YearDigits(df[LastYearRow(i)].period_raw)
        /\ current_year # NoStr => current_year' # NoStr]_vars

\* two year rows of different years, then a month row: its pair carries the
\* second year
C1_Witness ==
    /\ pc = "loop" /\ i = 3
    /\ IsYearLabel(df[1].period_raw) /\ IsYearLabel(df[2].period_raw)
    /\ YearDigits(df[1].period_raw) # YearDigits(df[2].period_raw)
    /\ IsMonthLabel(df[3].period_raw)
    /\ Len(processed_data) = 1
    /\ SubSeq(processed_data[1].date, 1, 4) = YearDigits(df[2].period_raw)

\* C2: a row emits a pair exactly when its label is a month label and a year
\* row precedes it; any other row is dropped, the loop goes on, and a dropped
\* row leaves the year context as it was.
C2_DropRule ==
    [][LoopStep =>
        /\ pc' = "loop"
        /\ (processed_data' # processed_data) <=> Emits(i')
        /\ Emits(i') =>
              /\ Len(processed_data') = Len(processed_data) + 1
              /\ SubSeq(processed_data', 1, Len(processed_data)) = processed_data
        /\ (~IsYearLabel(df[i'].period_raw) /\ ~Emits(i')) =>
              current_year' = current_year]_vars

\* a month row before any year row and an unrecognised row were dropped, a
\* one-digit month row after the year row emitted the only pair
C2_Witness ==
    /\ pc = "loop" /\ i = 4
    /\ IsMonthLabel(df[1].period_raw)
    /\ ~IsMonthLabel(df[2].period_raw) /\ ~IsYearLabel(df[2].period_raw)
    /\ IsYearLabel(df[3].period_raw)
    /\ IsMonthLabel(df[4].period_raw) /\ Len(Strip(df[4].period_raw)) = 2
    /\ Len(processed_data) = 1
    /\ current_year = YearDigits(df[3].period_raw)

\* C3: in the table parse_and_aggregate_dataframe returns, the dates are those
\* of all month rows with a year context, rows with a blank or unparsable
\* amount included, and each date's total is the sum of its rows' amounts with
\* every blank or unparsable amount counted as 0.
C3_AmountCoercion ==
    pc = "parsed" =>
        LET emitting == {k \in 1..Len(df) : Emits(k)}
            total(d) == SumFn([k \in {j \in emitting : RowDate(j) = d} |->
                                  CellValue(df[k].export_amount)])
        IN  /\ {r.date : r \in Range(parsed_df.rows)} = {RowDate(k) : k \in emitting}
            /\ \A r \in Range(parsed_df.rows) : r.export_amount = Num(total(r.date))

\* a row with an unparsable amount and a later row of the same date with a
\* number, and a date whose only row is blank
C3_Witness ==
    /\ pc = "parsed"
    /\ \E a, b, c \in 1..Len(df) :
          /\ a < b
          /\ Emits(a) /\ Emits(b) /\ Emits(c)
          /\ df[a].export_amount = BadStr
          /\ df[b].export_amount.k = "num" /\ df[b].export_amount.v > 0
          /\ RowDate(a) = RowDate(b)
          /\ df[c].export_amount = NaN /\ RowDate(c) # RowDate(a)
          /\ \E r \in Range(parsed_df.rows) :
                r.date = RowDate(c) /\ r.export_amount = Num(0)
          /\ \E r \in Range(parsed_df.rows) :
                r.date = RowDate(a) /\ r.export_amount = df[b].export_amount

----------------------------------------------------------------------------
(* C4..C6: the aggregator *)

\* the pairs of processed_data that carry date d
PairsOf(d) == {n \in 1..Len(processed_data) : processed_data[n].date = d}

\* year and month of a date as one number
DateKey(date) == 100 * DateYear(date) + DateMonth(date)

\* C4: aggregate_by_date applied to the emitted pairs (a non-empty list)
\* returns exactly one record per distinct date of the list, and the record's
\* amount is the sum of the amounts of all pairs of that date (a NaN amount,
\* which the sum skips, counts 0).
C4_AggregateSums ==
    pc = "sort" =>
        /\ \A n \in 1..Len(processed_data) :
              Cardinality({m \in 1..Len(parsed_df.rows) :
                              parsed_df.rows[m].date = processed_data[n].date}) = 1
        /\ \A m \in 1..Len(parsed_df.rows) :
              /\ PairsOf(parsed_df.rows[m].date) # {}
              /\ parsed_df.rows[m].export_amount =
                     Num(SumFn([n \in PairsOf(parsed_df.rows[m].date) |->
                                   CellValue(processed_data[n].export_amount)]))

\* two pairs of one date with different amounts, a pair of another date
C4_Witness ==
    /\ pc = "sort"
    /\ Len(parsed_df.rows) = 2
    /\ \E a, b \in 1..Len(processed_data) :
          /\ a < b
          /\ processed_data[a].date = processed_data[b].date
          /\ processed_data[a].export_amount.k = "num"
          /\ processed_data[b].export_amount.k = "num"
          /\ processed_data[a].export_amount.v > processed_data[b].export_amount.v
          /\ processed_data[b].export_amount.v > 0
          /\ \E r \in Range(parsed_df.rows) :
                /\ r.date = processed_data[a].date
                /\ r.export_amount.v = processed_data[a].export_amount.v
                                         + processed_data[b].export_amount.v

\* C5: whatever the order of the input rows, the table returned by
\* parse_and_aggregate_dataframe is ascending by date, its index is 0..n-1,
\* and sort_by_date applied to it returns the same table.
C5_SortPostcondition ==
    pc = "parsed" =>
        /\ \A n \in 1..(Len(parsed_df.rows) - 1) :
              /\ StrLess(parsed_df.rows[n].date, parsed_df.rows[n + 1].date)
              /\ DateKey(parsed_df.rows[n].date) < DateKey(parsed_df.rows[n + 1].date)
        /\ \A n \in 1..Len(parsed_df.rows) : parsed_df.rows[n].idx = n - 1
        /\ sort_by_date(parsed_df) = parsed_df

\* the pairs were emitted in descending date order
C5_Witness ==
    /\ pc = "parsed"
    /\ Len(parsed_df.rows) >= 3
    /\ \A n \in 1..(Len(processed_data) - 1) :
          StrLess(processed_data[n + 1].date, processed_data[n].date)

\* C6: aggregating an aggregated table returns the identical table:
\* aggregate_by_date(aggregate_by_date(t)) = aggregate_by_date(t), both for the
\* table of emitted pairs and for the table the Aggregate step has produced.
C6_AggregateIdempotent ==
    /\ pc = "aggregate" =>
          aggregate_by_date(aggregate_by_date(parsed_df)) = aggregate_by_date(parsed_df)
    /\ pc = "sort" => aggregate_by_date(parsed_df) = parsed_df

\* the aggregated table has summed two pairs of one date and holds two dates
C6_Witness ==
    /\ pc = "sort"
    /\ Len(parsed_df.rows) = 2
    /\ Len(processed_data) = 3
    /\ \A n \in 1..3 : processed_data[n].export_amount.k = "num"
                          /\ processed_data[n].export_amount.v > 0

----------------------------------------------------------------------------
(* C7..C9: the growth calculator *)

Abs(x) == IF x < 0 THEN -x ELSE x

\* C7: calculate_percentage_change returns null whenever previous = 0, also
\* for current = 0; for previous # 0 it returns the number with two decimals
\* nearest to (current - previous) / previous * 100, which is 0 when
\* current = previous.  (change.v is in hundredths of a percent.)
C7_PercentageChange ==
    pc = "returned" =>
        /\ previous = 0 => change = None
        /\ previous # 0 =>
              /\ change.k = "num"
              /\ 2 * Abs(change.v * previous - 10000 * (current - previous))
                     <= Abs(previous)
        /\ (previous # 0 /\ current = previous) => change = Num(0)

\* 0 against 0 has returned null
C7_Witness == pc = "returned" /\ previous = 0 /\ current = 0 /\ change = None

\* C8: in calculate_mom's output the first record's mom is null, and every
\* later record's mom is the percentage change against the record just before
\* it in the list, whatever that record's month; a one-element series has
\* mom = null and, after calculate_yoy, yoy = null.
C8_MomPositional ==
    pc \in {"yoy", "to_dataframe"} =>
        /\ Len(results) = Len(records)
        /\ \A n \in 1..Len(results) :
              /\ results[n].date = records[n].date
              /\ results[n].export_amount = records[n].export_amount
              /\ results[n].export_mom =
                     IF n = 1 THEN None
                     ELSE calculate_percentage_change(records[n].export_amount,
                                                      records[n - 1].export_amount)
        /\ (pc = "to_dataframe" /\ Len(results) = 1) =>
              results[1].export_mom = None /\ results[1].export_yoy = None

\* three records; the third follows a record of another year and its mom
\* differs from the change against the first record
C8_Witness ==
    /\ pc = "yoy"
    /\ Len(results) = 3
    /\ DateYear(records[3].date) # DateYear(records[2].date)
    /\ results[3].export_mom # None
    /\ results[3].export_mom # calculate_percentage_change(records[3].export_amount,
                                                           records[1].export_amount)

\* record m is dated one year before record n, same month
YearBefore(m, n) ==
    /\ DateYear(records[m].date) = DateYear(records[n].date) - 1
    /\ DateMonth(records[m].date) = DateMonth(records[n].date)

UniqueDates == \A m, n \in 1..Len(records) : records[m].date = records[n].date => m = n

\* C9: in a series of unique dates every record's yoy is the percentage change
\* against the record dated one year earlier, same month, wherever that record
\* stands in the series, and null when the series has no such record.
C9_YoyCalendarMatched ==
    (pc = "to_dataframe" /\ UniqueDates) =>
        \A n \in 1..Len(results) :
            /\ (\E m \in 1..Len(records) : YearBefore(m, n)) =>
                  \E m \in 1..Len(records) :
                      /\ YearBefore(m, n)
                      /\ results[n].export_yoy =
                             calculate_percentage_change(records[n].export_amount,
                                                         records[m].export_amount)
            /\ (~\E m \in 1..Len(records) : YearBefore(m, n)) =>
                  results[n].export_yoy = None

\* the record one year earlier stands two places after the record compared,
\* with a record of another month between them
C9_Witness ==
    /\ pc = "to_dataframe"
    /\ UniqueDates
    /\ Len(records) = 3
    /\ YearBefore(3, 1)
    /\ results[1].export_yoy # None
    /\ results[1].export_yoy # results[1].export_mom
    /\ results[2].export_yoy = None /\ results[3].export_yoy = None

----------------------------------------------------------------------------
(* C10: the quarterly roll-up *)

\* ceil(month / 3)
QuarterNumber(date) == (DateMonth(date) + 2) \div 3

\* the months of monthly_df that fall in the quarter labelled q
MonthsOfQuarter(q) ==
    {n \in 1..Len(monthly_df.rows) :
        /\ DateYear(monthly_df.rows[n].date) = StrToInt(SubSeq(q, 1, 4))
        /\ QuarterNumber(monthly_df.rows[n].date) = DigitVal(q[6])}

\* C10: when process_quarterly returns, its table has exactly one record per
\* quarter with a month in the input, labelled YYYYQn with n = ceil(month/3);
\* the record's amount is the sum of the amounts of the input months of that
\* quarter, and the records are in ascending chronological order.
C10_QuarterlyRollup ==
    pc = "done" =>
        /\ \A n \in 1..Len(monthly_df.rows) :
              Cardinality({m \in 1..Len(quarterly_df.rows) :
                              n \in MonthsOfQuarter(quarterly_df.rows[m].quarter)}) = 1
        /\ \A m \in 1..Len(quarterly_df.rows) :
              LET q == quarterly_df.rows[m].quarter
              IN  /\ Len(q) = 6 /\ q[5] = "Q" /\ q[6] \in {"1", "2", "3", "4"}
                  /\ \A c \in 1..4 : q[c] \in Digits
                  /\ MonthsOfQuarter(q) # {}
                  /\ quarterly_df.rows[m].export_amount =
                         Num(SumFn([n \in MonthsOfQuarter(q) |->
                                       CellValue(monthly_df.rows[n].export_amount)]))
        /\ \A m \in 1..(Len(quarterly_df.rows) - 1) :
              QuarterOrdinal(quarterly_df.rows[m].quarter)
                  < QuarterOrdinal(quarterly_df.rows[m + 1].quarter)

\* months 01 and 03 of one year make one quarter, a month of the next quarter
\* stands before them in the input
C10_Witness ==
    /\ pc = "done"
    /\ Len(monthly_df.rows) = 3
    /\ Len(quarterly_df.rows) = 2
    /\ DateMonth(monthly_df.rows[1].date) = 4
    /\ DateMonth(monthly_df.rows[2].date) = 3
    /\ DateMonth(monthly_df.rows[3].date) = 1
    /\ quarterly_df.rows[1].export_amount.v =
           monthly_df.rows[2].export_amount.v + monthly_df.rows[3].export_amount.v
    /\ monthly_df.rows[2].export_amount.v > monthly_df.rows[3].export_amount.v
    /\ monthly_df.rows[3].export_amount.v > 0

----------------------------------------------------------------------------
(* Quarterly growth columns, read off the quarterly table *)

QuarterlyReturned == pc = "done" /\ ~IsEmpty(quarterly_df)

\* year and quarter number of a label YYYYQn
QuarterYear(q) == StrToInt(SubSeq(q, 1, 4))
QuarterDigit(q) == DigitVal(q[6])

\* v hundredths of a percent is the change from p to a rounded to two decimals
IsPctChange(v, a, p) == 2 * Abs(v * p - 10000 * (a - p)) <= Abs(p)

\* rows m, n of the quarterly table are the same quarter one year apart
SameQuarterYearBefore(m, n) ==
    /\ QuarterYear(quarterly_df.rows[m].quarter) + 1
         = QuarterYear(quarterly_df.rows[n].quarter)
    /\ QuarterDigit(quarterly_df.rows[m].quarter)
         = QuarterDigit(quarterly_df.rows[n].quarter)

\* C11: in the table process_quarterly returns, the first quarter's qoq is
\* null, and every later quarter's qoq is the percentage change of its amount
\* against the amount of the row immediately before it (a non-zero amount),
\* whichever quarter that row is.
C11_QoqPositional ==
    QuarterlyReturned =>
        /\ quarterly_df.rows[1].export_qoq = NaN
        /\ \A n \in 2..Len(quarterly_df.rows) :
              LET a == quarterly_df.rows[n].export_amount.v
                  p == quarterly_df.rows[n - 1].export_amount.v
                  q == quarterly_df.rows[n].export_qoq
              IN  p # 0 => q.k = "num" /\ IsPctChange(q.v, a, p)

\* C11 witness: the second row's qoq is computed against a row that is not
\* the calendar-adjacent quarter (2023Q1 before 2024Q1).
C11_Witness ==
    /\ QuarterlyReturned
    /\ Len(quarterly_df.rows) = 2
    /\ QuarterYear(quarterly_df.rows[1].quarter) = 2023
    /\ QuarterYear(quarterly_df.rows[2].quarter) = 2024
    /\ quarterly_df.rows[1].export_amount = Num(10)
    /\ quarterly_df.rows[2].export_amount = Num(15)
    /\ quarterly_df.rows[2].export_qoq = Num(5000)

\* C12: in the table process_quarterly returns, the yoy of quarter YQn is the
\* percentage change against the amount (non-zero) of quarter (Y-1)Qn when
\* that quarter is in the table, wherever it stands, and null when it is not.
C12_YoyFourQuartersBack ==
    QuarterlyReturned =>
        \A n \in 1..Len(quarterly_df.rows) :
            LET a == quarterly_df.rows[n].export_amount.v
                y == quarterly_df.rows[n].export_yoy
                before == {m \in 1..Len(quarterly_df.rows) : SameQuarterYearBefore(m, n)}
            IN  /\ before = {} => y = NaN
                /\ \A m \in before :
                      LET p == quarterly_df.rows[m].export_amount.v
                      IN  p # 0 => y.k = "num" /\ IsPctChange(y.v, a, p)

\* C12 witness: 2024Q1 is compared with 2023Q1 although 2023Q2 stands
\* between them and 2023Q3, 2023Q4 are missing.
C12_Witness ==
    /\ QuarterlyReturned
    /\ Len(quarterly_df.rows) = 3
    /\ QuarterDigit(quarterly_df.rows[2].quarter) = 2
    /\ SameQuarterYearBefore(1, 3)
    /\ quarterly_df.rows[1].export_amount = Num(10)
    /\ quarterly_df.rows[2].export_amount = Num(15)
    /\ quarterly_df.rows[3].export_amount = Num(15)
    /\ quarterly_df.rows[3].export_yoy = Num(5000)
    /\ quarterly_df.rows[3].export_qoq = Num(0)

\* C13: in the table process_quarterly returns, a qoq whose previous row has
\* amount 0, and a yoy whose quarter one year earlier has amount 0, is null:
\* never an infinite value, and the call does not raise.
C13_QuarterlyZeroDivisionIsNull ==
    QuarterlyReturned =>
        /\ \A n \in 2..Len(quarterly_df.rows) :
              quarterly_df.rows[n - 1].export_amount.v = 0
                  => quarterly_df.rows[n].export_qoq = NaN
        /\ \A m, n \in 1..Len(quarterly_df.rows) :
              (SameQuarterYearBefore(m, n) /\ quarterly_df.rows[m].export_amount.v = 0)
                  => quarterly_df.rows[n].export_yoy = NaN

----------------------------------------------------------------------------
(* Year filters *)

\* positions of t whose year (read by yearOf) lies in lo..hi
KeptPositions(t, yearOf(_), lo, hi) ==
    {n \in 1..Len(t.rows) : yearOf(t.rows[n]) >= lo /\ yearOf(t.rows[n]) <= hi}

\* the k-th smallest element of a set of positions
KthOf(S, k) == CHOOSE n \in S : Cardinality({m \in S : m < n}) = k - 1

\* out holds exactly the rows of t at the positions S, in their order, every
\* field but the index label unchanged
IsSelection(out, t, S) ==
    /\ out.columns = t.columns
    /\ Len(out.rows) = Cardinality(S)
    /\ \A k \in 1..Len(out.rows) :
          /\ out.rows[k].idx = k - 1
          /\ [out.rows[k] EXCEPT !.idx = t.rows[KthOf(S, k)].idx] = t.rows[KthOf(S, k)]

YearOfDateRow(r) == DateKey(r.date) \div 100
YearOfQuarterRow(r) == QuarterYear(r.quarter)

\* C17: filter_by_year and filter_quarterly_by_year, called with the bounds
\* (start, end), return exactly the records whose year y has start <= y <= end,
\* in their original relative order and with every field unchanged (growth
\* values are not recomputed); the result is empty when start > end.
C17_YearRangeFilter ==
    /\ pc \in {"filter_quarterly", "filtered"} =>
          /\ IsSelection(monthly_df_filtered, monthly_df,
                KeptPositions(monthly_df, YearOfDateRow, FilterStartYear, end_year))
          /\ FilterStartYear > end_year => monthly_df_filtered.rows = <<>>
    /\ pc = "filtered" =>
          /\ IsSelection(quarterly_df_filtered, quarterly_df,
                KeptPositions(quarterly_df, YearOfQuarterRow, FilterStartYear, end_year))
          /\ FilterStartYear > end_year => quarterly_df_filtered.rows = <<>>

\* C17 witness: 2023-01 is dropped and 2024-01 is kept with the growth values
\* computed against the dropped record; the quarterly table likewise.
C17_Witness ==
    /\ pc = "filtered"
    /\ FilterStartYear = 2024 /\ end_year = 2024
    /\ Len(monthly_df.rows) = 2
    /\ Len(monthly_df_filtered.rows) = 1
    /\ monthly_df_filtered.rows[1].date = D2401
    /\ monthly_df_filtered.rows[1].export_yoy = Num(5000)
    /\ Len(quarterly_df_filtered.rows) = 1
    /\ quarterly_df_filtered.rows[1].export_yoy = Num(5000)

----------------------------------------------------------------------------
(* Validation of the aggregated amounts *)

NegativeAggregate ==
    \E n \in 1..Len(parsed_df.rows) : parsed_df.rows[n].export_amount.v < 0

\* C19: every record of the table process_trade_data returns has an amount
\* >= 0; when the aggregated amount of some date is negative the run raises
\* and no monthly table is returned, not even the records of the valid dates.
C19_NoNegativeNoPartial ==
    /\ \A n \in 1..Len(monthly_df.rows) :
          /\ monthly_df.rows[n].export_amount.k = "num"
          /\ monthly_df.rows[n].export_amount.v >= 0
    /\ (pc \notin {"start", "loop", "aggregate", "sort", "parsed"} /\ NegativeAggregate)
          => pc = "raised" /\ monthly_df = NoFrame /\ records = <<>>

\* C19 witness: the aggregated table holds 2023-01 = -20 and 2023-02 = 20,
\* and the run has raised without a monthly table.
C19_Witness ==
    /\ pc = "raised"
    /\ Len(parsed_df.rows) = 2
    /\ parsed_df.rows[1].export_amount = Num(-20)
    /\ parsed_df.rows[2].export_amount = Num(20)
    /\ monthly_df = NoFrame

----------------------------------------------------------------------------
(* The enriched table, described from the calendar *)

\* the table has got its business_days and daily_avg columns
HasDailyAvg ==
    pc \in {"daily_avg_mom", "daily_avg_yoy", "quarterly_stats", "enriched",
            "enrich_raised"}

\* YYYY-MM with a month 01..12
IsMonthDate(date) ==
    /\ Len(date) = 7 /\ date[5] = "-"
    /\ \A n \in {1, 2, 3, 4, 6, 7} : date[n] \in Digits
    /\ DateKey(date) % 100 \in 1..12

YearNo(date) == DateKey(date) \div 100
MonthNo(date) == DateKey(date) % 100

\* number of days of a month
MonthLength(y, m) ==
    28 + ((m + m \div 8) % 2) + (2 % m) + 2 * (1 \div m)
       + (IF m = 2 /\ y % 4 = 0 /\ (y % 100 # 0 \/ y % 400 = 0) THEN 1 ELSE 0)

\* day of the week, Sunday = 0 (Sakamoto's method)
DayOfWeek(y, m, d) ==
    LET t == <<0, 3, 2, 5, 0, 3, 5, 1, 4, 6, 2, 4>>
        yy == IF m < 3 THEN y - 1 ELSE y
    IN  (yy + yy \div 4 - yy \div 100 + yy \div 400 + t[m] + d) % 7

\* the Monday-Friday days of a month that are no holiday
WorkingDays(y, m) ==
    {d \in 1..MonthLength(y, m) :
        DayOfWeek(y, m, d) \in 1..5 /\ <<y, m, d>> \notin kr_holidays}

\* C14: for every record with a well-formed date, business_days is the number
\* of days of that month that are Monday-Friday and no holiday, and daily_avg
\* is amount / business_days rounded to the nearest integer when
\* business_days > 0 and 0 otherwise; both are >= 0 on every record.
C14_BusinessDaysAndDailyAvg ==
    HasDailyAvg =>
        \A n \in 1..Len(enriched.rows) :
            LET r == enriched.rows[n]
                a == r.export_amount.v
            IN  /\ r.business_days >= 0
                /\ r.daily_avg >= 0
                /\ IsMonthDate(r.date) =>
                      /\ r.business_days
                            = Cardinality(WorkingDays(YearNo(r.date), MonthNo(r.date)))
                      /\ r.business_days > 0 =>
                            2 * Abs(r.daily_avg * r.business_days - a) <= r.business_days
                      /\ r.business_days = 0 => r.daily_avg = 0

\* C14 witness: February 2024 has 21 weekdays, one of them (Friday the 9th) a
\* holiday, and the Saturday holiday does not count twice; 315 / 20 gives 16.
C14_Witness ==
    /\ HasDailyAvg
    /\ Len(enriched.rows) = 1
    /\ enriched.rows[1].date = D2402
    /\ <<2024, 2, 9>> \in kr_holidays
    /\ enriched.rows[1].business_days = 20
    /\ enriched.rows[1].export_amount = Num(315)
    /\ enriched.rows[1].daily_avg = 16

\* a cell that holds a value: neither None nor NaN
NonNull(cell) == cell.k \in {"num", "inf"}

\* row n of the enriched table carries some quarterly field
Annotated(n) ==
    \/ NonNull(enriched.rows[n].quarter_b)
    \/ NonNull(enriched.rows[n].quarter_c)
    \/ NonNull(enriched.rows[n].quarter_d)
    \/ NonNull(enriched.rows[n].quarter_e)

AllQuarterFieldsNone(n) ==
    /\ enriched.rows[n].quarter_b = None
    /\ enriched.rows[n].quarter_c = None
    /\ enriched.rows[n].quarter_d = None
    /\ enriched.rows[n].quarter_e = None

\* rows m and n lie in the same calendar quarter
SameQuarter(m, n) ==
    /\ YearNo(enriched.rows[m].date) = YearNo(enriched.rows[n].date)
    /\ (MonthNo(enriched.rows[m].date) + 2) \div 3
         = (MonthNo(enriched.rows[n].date) + 2) \div 3

\* row n is the chronologically last month present in its quarter and closes it
ClosesItsQuarter(n) ==
    /\ MonthNo(enriched.rows[n].date) \in {3, 6, 9, 12}
    /\ \A m \in 1..Len(enriched.rows) :
          SameQuarter(m, n) => DateKey(enriched.rows[m].date) <= DateKey(enriched.rows[n].date)

\* C15: in enrich_data's output a record carries a non-null quarterly field
\* only if it is the chronologically last month present in its quarter and its
\* month is 3, 6, 9 or 12; every other record has the four fields None; at
\* most one record per quarter is annotated, and none when the closing month
\* is absent.
C15_QuarterDisplayGate ==
    pc = "enriched" =>
        /\ \A n \in 1..Len(enriched.rows) :
              /\ Annotated(n) => ClosesItsQuarter(n)
              /\ ~ClosesItsQuarter(n) => AllQuarterFieldsNone(n)
        /\ \A m, n \in 1..Len(enriched.rows) :
              (SameQuarter(m, n) /\ Annotated(m) /\ Annotated(n)) => m = n

\* C15 witness: of 2024-01, 2024-02, 2024-03 only the March record is annotated.
C15_Witness ==
    /\ pc = "enriched"
    /\ Len(enriched.rows) = 3
    /\ enriched.rows[1].date = D2401 /\ AllQuarterFieldsNone(1)
    /\ enriched.rows[2].date = D2402 /\ AllQuarterFieldsNone(2)
    /\ enriched.rows[3].date = D2403
    /\ enriched.rows[3].quarter_b.k = "num" /\ enriched.rows[3].quarter_b.v > 0
    /\ enriched.rows[3].quarter_c.k = "num"

\* some month of row n's quarter is missing from the series
IncompleteQuarter(n) ==
    \E mo \in 1..12 :
        /\ (mo + 2) \div 3 = (MonthNo(enriched.rows[n].date) + 2) \div 3
        /\ \A m \in 1..Len(enriched.rows) :
              ~(SameQuarter(m, n) /\ MonthNo(enriched.rows[m].date) = mo)

\* C16: if at least one of the three months of a quarter is missing from the
\* series given to enrich_data, no record of that quarter carries quarter_sum,
\* quarter_avg, quarter_qoq or quarter_yoy.
C16_IncompleteQuarterNotAnnotated ==
    pc = "enriched" =>
        \A n \in 1..Len(enriched.rows) : IncompleteQuarter(n) => ~Annotated(n)

\* the monthly table holds a date that is no calendar month
MalformedDate(date) == ~IsMonthDate(date)

\* C20: for a record whose date is not a valid YYYY-MM month, enrich_data
\* yields business_days = 0 and daily_avg = 0, and the call completes its four
\* sub-steps without raising.
C20_MalformedDateDegrades ==
    /\ pc # "enrich_raised"
    /\ HasDailyAvg =>
          \A n \in 1..Len(enriched.rows) :
              MalformedDate(enriched.rows[n].date) =>
                  enriched.rows[n].business_days = 0 /\ enriched.rows[n].daily_avg = 0

----------------------------------------------------------------------------
(* Empty tables *)

\* no row of the raw table emits a pair
NoPairs == \A k \in 1..Len(df) : ~Emits(k)

IsEmptyTable(t, cols) == t.rows = <<>> /\ t.columns = cols

\* C18: for an empty raw table, and for one whose rows emit no pair, the
\* parser/aggregator, the monthly pipeline, the quarterly roll-up and the
\* enricher each return an empty table with the stage's columns; none raises.
C18_EmptyInput ==
    (NoPairs /\ pc \notin {"start", "loop"}) =>
        /\ pc \notin {"raised", "enrich_raised"}
        /\ IsEmptyTable(parsed_df, <<"date", "export_amount">>)
        /\ pc # "parsed" =>
              IsEmptyTable(monthly_df,
                           <<"date", "export_amount", "export_mom", "export_yoy">>)
        /\ pc = "done" =>
              IsEmptyTable(quarterly_df,
                           <<"quarter", "export_amount", "export_qoq", "export_yoy">>)
        /\ pc = "enriched" =>
              IsEmptyTable(enriched,
                           <<"date", "export_amount", "export_mom", "export_yoy",
                             "business_days", "daily_avg", "daily_avg_mom",
                             "daily_avg_yoy", "quarter_b", "quarter_c", "quarter_d",
                             "quarter_e">>)

\* C18 witness: a month row before any year row, a year row and an
\* unrecognised label have gone through the enricher.
C18_Witness ==
    /\ pc = "enriched"
    /\ Len(df) = 3
    /\ df[1].period_raw = M01
    /\ df[2].period_raw = Y2024
    /\ df[3].period_raw = Total
    /\ enriched.rows = <<>>

----------------------------------------------------------------------------
(* The growth columns of the enriched table *)

\* v percent is the change from p to a rounded to a whole number
IsPctChangeInt(v, a, p) == 2 * Abs(v * p - 100 * (a - p)) <= Abs(p)

\* C21: in enrich_data's output the first record's daily_avg_mom is null, and
\* every later record's daily_avg_mom is the percentage change of its
\* daily_avg against the daily_avg of the record just before it, rounded to a
\* whole number (a zero daily_avg before it is C23's case).
C21_DailyAvgMomPositional ==
    pc = "enriched" =>
        \A n \in 1..Len(enriched.rows) :
            LET r == enriched.rows[n]
            IN  /\ n = 1 => r.daily_avg_mom = NaN
                /\ (n > 1 /\ enriched.rows[n - 1].daily_avg # 0) =>
                      /\ r.daily_avg_mom.k = "num"
                      /\ IsPctChangeInt(r.daily_avg_mom.v, r.daily_avg,
                                        enriched.rows[n - 1].daily_avg)

\* C21 witness: 2023-03, 2024-02, 2024-01 with daily averages 14, 16, 14; the
\* third record is compared with the second (-12.5, rounded to -12), not with
\* the first.
C21_Witness ==
    /\ pc = "enriched"
    /\ Len(enriched.rows) = 3
    /\ enriched.rows[1].daily_avg = 14 /\ enriched.rows[1].daily_avg_mom = NaN
    /\ enriched.rows[2].daily_avg = 16 /\ enriched.rows[2].daily_avg_mom = Num(14)
    /\ enriched.rows[3].daily_avg = 14 /\ enriched.rows[3].daily_avg_mom = Num(-12)

\* no date occurs twice in the enriched table
UniqueEnrichedDates ==
    \A m, n \in 1..Len(enriched.rows) :
        enriched.rows[m].date = enriched.rows[n].date => m = n

\* record m is dated one year before record n, same month
EnrichedYearBefore(m, n) ==
    DateKey(enriched.rows[m].date) + 100 = DateKey(enriched.rows[n].date)

\* C22: for a series with unique dates, each record at Y-M of enrich_data's
\* output has daily_avg_yoy = the percentage change, rounded to a whole
\* number, of its own daily_avg against the daily_avg of the record dated
\* (Y-1)-M when that record exists, and null otherwise, wherever the two
\* records stand in the table (a zero daily_avg one year before is C23's
\* case).
C22_DailyAvgYoyCalendarMatched ==
    (pc = "enriched" /\ UniqueEnrichedDates) =>
        \A n \in 1..Len(enriched.rows) :
            LET r == enriched.rows[n]
                prior == {m \in 1..Len(enriched.rows) : EnrichedYearBefore(m, n)}
            IN  /\ prior = {} => r.daily_avg_yoy = NaN
                /\ \A m \in prior :
                      enriched.rows[m].daily_avg # 0 =>
                          /\ r.daily_avg_yoy.k = "num"
                          /\ IsPctChangeInt(r.daily_avg_yoy.v, r.daily_avg,
                                            enriched.rows[m].daily_avg)

\* C22 witness: 2024-03, 2024-01, 2023-03 in this order, daily averages 16, 14
\* and 14: the first record is matched with the third (+14), the others have
\* no record one year before.
C22_Witness ==
    /\ pc = "enriched"
    /\ Len(enriched.rows) = 3
    /\ enriched.rows[1].date = D2403 /\ enriched.rows[1].daily_avg = 16
    /\ enriched.rows[2].date = D2401 /\ enriched.rows[2].daily_avg = 14
    /\ enriched.rows[3].date = D2303 /\ enriched.rows[3].daily_avg = 14
    /\ enriched.rows[1].daily_avg_yoy = Num(14)
    /\ enriched.rows[2].daily_avg_yoy = NaN
    /\ enriched.rows[3].daily_avg_yoy = NaN

----------------------------------------------------------------------------
(* The quarters of the enriched table, described from the calendar *)

\* quarters counted from year 0
QuarterKey(n) ==
    4 * YearNo(enriched.rows[n].date) + (MonthNo(enriched.rows[n].date) + 2) \div 3

\* sum of daily_avg over the records at the positions S
RECURSIVE EnrichedSum(_)
EnrichedSum(S) ==
    IF S = {} THEN 0
    ELSE LET m == CHOOSE m \in S : TRUE
         IN  enriched.rows[m].daily_avg + EnrichedSum(S \ {m})

\* sum of daily_avg over the months present of the quarter numbered k
QuarterSumOf(k) ==
    EnrichedSum({m \in 1..Len(enriched.rows) : QuarterKey(m) = k})

\* the quarter numbered k has a month in the series
QuarterPresent(k) == \E m \in 1..Len(enriched.rows) : QuarterKey(m) = k

\* the quarter numbered j is the latest quarter of the series before quarter k
PrecedingQuarter(j, k) ==
    /\ QuarterPresent(j) /\ j < k
    /\ \A m \in 1..Len(enriched.rows) : ~(j < QuarterKey(m) /\ QuarterKey(m) < k)

\* C23: when the comparison value is 0 (the preceding record's daily_avg for
\* daily_avg_mom, the daily_avg of the same month one year earlier for
\* daily_avg_yoy, the comparison quarter's average for quarter_qoq and
\* quarter_yoy), the derived field of enrich_data's output is null; no derived
\* field is ever infinite.
C23_EnricherZeroDivisionIsNull ==
    pc = "enriched" =>
        \A n \in 1..Len(enriched.rows) :
            LET r == enriched.rows[n]
            IN  /\ r.daily_avg_mom.k # "inf"
                /\ r.daily_avg_yoy.k # "inf"
                /\ r.quarter_d.k # "inf"
                /\ r.quarter_e.k # "inf"
                /\ (n > 1 /\ enriched.rows[n - 1].daily_avg = 0) =>
                      ~NonNull(r.daily_avg_mom)
                /\ (UniqueEnrichedDates
                      /\ \E m \in 1..Len(enriched.rows) :
                            EnrichedYearBefore(m, n) /\ enriched.rows[m].daily_avg = 0) =>
                      ~NonNull(r.daily_avg_yoy)
                /\ (\E j \in 0..QuarterKey(n) :
                        PrecedingQuarter(j, QuarterKey(n)) /\ QuarterSumOf(j) = 0) =>
                      ~NonNull(r.quarter_d)
                /\ (QuarterPresent(QuarterKey(n) - 4)
                      /\ QuarterSumOf(QuarterKey(n) - 4) = 0) =>
                      ~NonNull(r.quarter_e)

\* C24: on every record that surfaces quarterly values, quarter_sum is the
\* sum of daily_avg over the records of the series that lie in that record's
\* own quarter, and quarter_avg is quarter_sum / 3 rounded to a whole number,
\* the divisor being 3 also when fewer than three months are present.
C24_QuarterSumAndAvg ==
    pc = "enriched" =>
        \A n \in 1..Len(enriched.rows) :
            LET r == enriched.rows[n]
            IN  r.quarter_b # None =>
                    /\ r.quarter_b = Num(QuarterSumOf(QuarterKey(n)))
                    /\ r.quarter_c.k = "num"
                    /\ 2 * Abs(3 * r.quarter_c.v - QuarterSumOf(QuarterKey(n))) <= 3

\* C24 witness: 2024-02 and 2024-03 with daily averages 16 and 16: the March
\* record shows the sum 32 and the average 11 (32 / 3, not 32 / 2).
C24_Witness ==
    /\ pc = "enriched"
    /\ Len(enriched.rows) = 2
    /\ enriched.rows[1].date = D2402 /\ enriched.rows[1].daily_avg = 16
    /\ enriched.rows[2].date = D2403 /\ enriched.rows[2].daily_avg = 16
    /\ enriched.rows[2].quarter_b = Num(32)
    /\ enriched.rows[2].quarter_c = Num(11)

\* quarter_sum / 3 rounded to a whole number (a third is never a tie)
QuarterAvgOf(k) == (2 * QuarterSumOf(k) + 3) \div 6

\* C25: the quarter_yoy surfaced on the closing-month record of quarter YQn is
\* the percentage change of that quarter's average against the average of
\* quarter (Y-1)Qn, and is null when (Y-1)Qn has no month in the series,
\* whatever quarters lie between the two.
C25_QuarterYoySameQuarterYearBefore ==
    pc = "enriched" =>
        \A n \in 1..Len(enriched.rows) :
            LET r == enriched.rows[n]
                k == QuarterKey(n)
            IN  r.quarter_b # None =>
                    /\ ~QuarterPresent(k - 4) => ~NonNull(r.quarter_e)
                    /\ (QuarterPresent(k - 4) /\ QuarterAvgOf(k - 4) # 0) =>
                          /\ r.quarter_e.k = "num"
                          /\ IsPctChangeInt(r.quarter_e.v, QuarterAvgOf(k),
                                            QuarterAvgOf(k - 4))

----------------------------------------------------------------------------
(* The monthly pipeline as a whole *)

\* the summed amount of the pairs emitted for date d
EmittedTotal(d) ==
    SumFn([n \in PairsOf(d) |-> CellValue(processed_data[n].export_amount)])

\* process_trade_data has returned a table with rows
MonthlyReturned == pc = "monthly" /\ df # <<>> /\ ~IsEmpty(monthly_df)

\* C26: for any order of the raw rows and any repeated dates, each record of
\* process_trade_data's output carries the sum of the amounts emitted for its
\* date, and its mom compares that sum with the sum of the record holding the
\* greatest smaller date of the output (null for the earliest record, and for
\* a zero sum before it).
C26_GrowthAfterAggregationAndSort ==
    MonthlyReturned =>
        \A n \in 1..Len(monthly_df.rows) :
            LET r == monthly_df.rows[n]
                earlier == {m \in 1..Len(monthly_df.rows) :
                               DateKey(monthly_df.rows[m].date) < DateKey(r.date)}
            IN  /\ r.export_amount = Num(EmittedTotal(r.date))
                /\ earlier = {} => ~NonNull(r.export_mom)
                /\ \A m \in earlier :
                      (\A j \in earlier : DateKey(monthly_df.rows[j].date)
                                            <= DateKey(monthly_df.rows[m].date)) =>
                          LET p == EmittedTotal(monthly_df.rows[m].date)
                          IN  /\ p = 0 => ~NonNull(r.export_mom)
                              /\ p # 0 =>
                                    /\ r.export_mom.k = "num"
                                    /\ IsPctChange(r.export_mom.v,
                                                   EmittedTotal(r.date), p)

\* C26 witness: the raw rows give 2024-02 = 20 first and then 2024-01 twice
\* (10 and 15): the output is 2024-01 = 25, 2024-02 = 20 and the mom of
\* 2024-02 is -20 %.
C26_Witness ==
    /\ MonthlyReturned
    /\ Len(processed_data) = 3
    /\ processed_data[1].export_amount = Num(20)
    /\ processed_data[2].date = processed_data[3].date
    /\ StrLess(processed_data[2].date, processed_data[1].date)
    /\ Len(monthly_df.rows) = 2
    /\ monthly_df.rows[1].export_amount = Num(25)
    /\ monthly_df.rows[2].export_amount = Num(20)
    /\ monthly_df.rows[2].export_mom = Num(-2000)

----------------------------------------------------------------------------
(* The year range of the report and dashboard commands *)

\* C27: the Monthly and Quarterly tables the report command writes hold only
\* records whose year y satisfies start_year <= y <= end_year.
C27_ReportRangeInclusive ==
    /\ pc \in {"filter_quarterly", "filtered"} =>
          \A n \in 1..Len(monthly_df_filtered.rows) :
              /\ start_year <= YearOfDateRow(monthly_df_filtered.rows[n])
              /\ YearOfDateRow(monthly_df_filtered.rows[n]) <= end_year
    /\ pc = "filtered" =>
          \A n \in 1..Len(quarterly_df_filtered.rows) :
              /\ start_year <= YearOfQuarterRow(quarterly_df_filtered.rows[n])
              /\ YearOfQuarterRow(quarterly_df_filtered.rows[n]) <= end_year

\* C28: the table the dashboard command draws holds exactly the records of
\* the enriched full series whose year lies in [start_year, end_year], each
\* with the daily_avg_mom, daily_avg_yoy and quarter fields it has in the full
\* series; for a series with unique dates, a kept record has a non-null
\* daily_avg_yoy whenever the same month one year before exists in the full
\* series with a non-zero daily_avg, kept or not.
C28_EnrichThenFilter ==
    pc = "dashboard" =>
        LET kept == KeptPositions(enriched, YearOfDateRow, start_year, end_year)
        IN  /\ IsSelection(monthly_df_filtered, enriched, kept)
            /\ UniqueEnrichedDates =>
                  \A k \in 1..Len(monthly_df_filtered.rows) :
                      (\E m \in 1..Len(enriched.rows) :
                          /\ EnrichedYearBefore(m, KthOf(kept, k))
                          /\ enriched.rows[m].daily_avg # 0) =>
                          NonNull(monthly_df_filtered.rows[k].daily_avg_yoy)

\* C28 witness: 2023-03 and 2024-03 enriched, then filtered to 2024: the
\* 2023-03 record is gone and the 2024-03 record keeps its yoy against it.
C28_Witness ==
    /\ pc = "dashboard"
    /\ start_year = 2024 /\ end_year = 2024
    /\ Len(enriched.rows) = 2
    /\ enriched.rows[1].date = D2303 /\ enriched.rows[1].daily_avg = 14
    /\ enriched.rows[2].date = D2403 /\ enriched.rows[2].daily_avg = 16
    /\ Len(monthly_df_filtered.rows) = 1
    /\ monthly_df_filtered.rows[1].date = D2403
    /\ monthly_df_filtered.rows[1].daily_avg_mom = Num(14)
    /\ monthly_df_filtered.rows[1].daily_avg_yoy = Num(14)

----------------------------------------------------------------------------
(* The dates of the period parser *)

\* C29: every date the period parser emits, and every date of the table
\* process_trade_data returns, has a month part 01..12.
C29_DatesAreCalendarMonths ==
    /\ \A n \in 1..Len(processed_data) : IsMonthDate(processed_data[n].date)
    /\ pc = "monthly" =>
          \A n \in 1..Len(monthly_df.rows) : IsMonthDate(monthly_df.rows[n].date)

----------------------------------------------------------------------------
(* Merged raw tables *)

\* no month row of the raw table t comes before t's first year row
StartsWithYear(t) ==
    \A k \in 1..Len(t) :
        IsMonthLabel(t[k].period_raw) =>
            \E j \in 1..(k - 1) : IsYearLabel(t[j].period_raw)

\* the dates of an aggregated table, and the amount it holds for a date
DatesOf(t) == {r.date : r \in Range(t.rows)}
AmountOf(t, d) ==
    IF d \in DatesOf(t)
    THEN (CHOOSE r \in Range(t.rows) : r.date = d).export_amount.v
    ELSE 0

\* C30: for raw tables A and B in each of which no month row comes before the
\* first year row, parsing and aggregating A ++ B yields the dates of A and of
\* B, and for every date the sum of the amounts that parsing and aggregating A
\* and B separately yield; the pairs emitted are those of A followed by
\* those of B alone, so the year context left at the end of A reaches no row
\* of B.
C30_MergeAdditive ==
    (pc = "parsed" /\ Len(all_raw_dfs) = 2
       /\ StartsWithYear(all_raw_dfs[1]) /\ StartsWithYear(all_raw_dfs[2])) =>
        LET a == parse_and_aggregate_dataframe(all_raw_dfs[1])
            b == parse_and_aggregate_dataframe(all_raw_dfs[2])
        IN  /\ DatesOf(parsed_df) = DatesOf(a) \cup DatesOf(b)
            /\ \A r \in Range(parsed_df.rows) :
                  r.export_amount = Num(AmountOf(a, r.date) + AmountOf(b, r.date))
            /\ processed_data = ParseLoop(all_raw_dfs[1], NoStr, <<>>)
                                   \o ParseLoop(all_raw_dfs[2], NoStr, <<>>)

\* C30 witness: A is 2024 with January = 10, B is 2024 with January = 10
\* again; the merged table holds 2024-01 = 20.
C30_Witness ==
    /\ pc = "parsed"
    /\ all_raw_dfs = <<<<Row(Y2024, NaN), Row(M01, Num(10))>>,
                       <<Row(Y2024, NaN), Row(M01, Num(10))>>>>
    /\ Len(parsed_df.rows) = 1
    /\ parsed_df.rows[1].date = D2401
    /\ parsed_df.rows[1].export_amount = Num(20)

====
